---------------------------- MODULE Spec2Model ----------------------------
(***************************************************************************)
(* Maze generation engine of MakeWheel: Maze2D and Maze3D (both extend     *)
(* BaseMaze).  One engine instance is modelled together with the objects   *)
(* it attaches to the THREE scene.                                         *)
(*                                                                         *)
(* Numbers.  Every length is an integer count of 2^-16: the inputs used    *)
(* here (2^-15, 14 * 2^-16, 1, 4, 6) and every coordinate computed from    *)
(* them are dyadic rationals that JavaScript doubles hold exactly, so the  *)
(* arithmetic of the model is the arithmetic of the code.  toFixed rounds such a value   *)
(* to PRECISION decimals and keeps the sign of a negative value that       *)
(* rounds to zero ("-0.0000"), as Number.prototype.toFixed does.           *)
(*                                                                         *)
(* Geometry dimensions of the meshes (BoxGeometry sizes, edge children,    *)
(* emissive colours) are not state that any operation below reads; they    *)
(* are left out of the element records.  The colour of a mesh's material   *)
(* is kept apart from the mesh record, in the variable material, because   *)
(* the same JavaScript object sits in walls, allPoints and the scene.      *)
(*                                                                         *)
(* Besides the maze engines the module holds the validators of             *)
(* utils/constants.js and the maze handlers of ShapeControllers (calls     *)
(* with their outcome), the Grid shape's path walk, FileHandlers, and the  *)
(* Wheel shape with the point colours of BaseShape.                        *)
(* Each part has its own specification over the shared variables; the      *)
(* parts a specification does not run stay as constructed.                 *)
(***************************************************************************)
EXTENDS Integers, Sequences, FiniteSets, TLC

VARIABLES
    engine,        \* class of the instance: "Maze2D" or "Maze3D"
    pc,            \* "idle", or "walk" while generate() runs the walk loop
    params,        \* arguments of the generate() call in progress / last made
    grid,          \* this.grid: cell -> [connections, neighbours, isVisited]
    currentCell,   \* local of generateMazePaths
    stack,         \* local of generateMazePaths
    visitedCount,  \* local of generateMazePaths3D
    walkLog,       \* the walk loop so far: iterations run, pushes and pops of each cell
    walls,         \* this.walls
    floors,        \* this.floors (Maze3D)
    allPoints,     \* this.allPoints
    centerPoint,   \* this.centerPoint: "null" or the origin vector
    scene,         \* objects attached to the THREE scene
    gen,           \* number of generate() calls made so far
    lastCall,      \* the last public call made: "none", "generate", "clearMaze", ...
    material,      \* mesh -> material.color of the walls and floors that exist
    call,          \* the last call made to a validator or UI handler, with its arguments
    ret,           \* what that call returned, threw or did
    gridArgs,      \* Grid.generate: rows, columns, floors, spacing, stepAmount, start corner
    gridPc,        \* Grid: "idle", "path" inside generateGridPath, "returned" after it
    path,          \* Grid.generateGridPath: path
    visited,       \* Grid.generateGridPath: visited
    current,       \* Grid.generateGridPath: current
    gridPoints,    \* Grid: this.allPoints after generate (the cells the spheres stand on)
    uploadedDesign,       \* FileHandlers.uploadedDesign
    uploadedFloorDesign,  \* FileHandlers.uploadedFloorDesign
    processedDesign,      \* FileHandlers.processedDesign
    readers,              \* FileReaders started and not yet loaded
    sinceReset,           \* whether reset() was called, and what was done since
    wheel          \* the Wheel instance: allPoints, pairPoints, segmentPoints, and the
                   \* material.color of each point of allPoints

mazeVars == << engine, pc, params, grid, currentCell, stack, visitedCount, walkLog,
               walls, floors, allPoints, centerPoint, scene, gen, lastCall, material >>
callVars == << call, ret >>
gridVars == << gridArgs, gridPc, path, visited, current, gridPoints >>
fileVars == << uploadedDesign, uploadedFloorDesign, processedDesign, readers, sinceReset >>
wheelVars == << wheel >>
outsideMaze == << callVars, gridVars, fileVars, wheelVars >>

vars == << mazeVars, callVars, gridVars, fileVars, wheelVars >>

---------------------------------------------------------------------------
(* Bounds of the model *)

MaxWidth == 3       \* 2D grids are 1..MaxWidth wide
MaxHeight == 3      \* 2D grids are 2..MaxHeight high
MaxCells3D == 12    \* 3D grids have at most this many cells, each side at least 2
MaxGen == 2         \* generate() calls per behaviour
MaxHighlighted == 1 \* elements that highlightPoint may hold highlighted at a time
MaxRows == 4        \* rows of a Grid
MaxColumns == 4     \* columns of a Grid
MaxGridFloors == 2  \* floors of a Grid
MaxReaders == 2     \* FileReaders in flight at a time
MaxRepetitions == 3 \* repetitions of a Wheel are 1..MaxRepetitions
MaxSegments == 2    \* segments of a Wheel are 0..MaxSegments

(* Program constants *)

PRECISION == 4              \* ANIMATION.PRECISION
CELL_LENGTH == 4            \* DEFAULTS.MAZE.CELL_LENGTH
WALL_HEIGHT == 6            \* DEFAULTS.MAZE.WALL_HEIGHT
WALL_WIDTH == 1             \* DEFAULTS.MAZE.WALL_WIDTH
FLOOR_LENGTH == 4           \* DEFAULTS.MAZE_3D.FLOOR_LENGTH
FLOOR_WIDTH == 4            \* DEFAULTS.MAZE_3D.FLOOR_WIDTH
MAX_FLOORS == 10            \* DEFAULTS.MAZE_3D.MAX_FLOORS
WALL == 16711680            \* COLORS.WALL = 0xff0000
FLOOR == 26367              \* COLORS.FLOOR = 0x0066ff
HIGHLIGHT == 14377983       \* COLORS.HIGHLIGHT = 0xdb63ff
POINT == 16711680           \* COLORS.POINT = 0xff0000
CENTER == 65280             \* COLORS.CENTER = 0x00ff00
SEGMENT == 16776960         \* COLORS.SEGMENT = 0xffff00
FLOOR_HIGHLIGHT == 6544383  \* 0x63dbff, Maze3D.getHighlightColor for a floor

UnitsPerOne == 2 * 32768    \* lengths are counted in units of 2^-16
Scale == 10 ^ PRECISION     \* toFixed counts in units of 10^-PRECISION
HALF_PI == 102944           \* MATH.HALF_PI = 1.5707963..., in units of 2^-16
TinyLength == 1 + 1         \* 2^-15 = 0.0000305..., a length in (0, 20]
FineLength == 2 * (UnitsPerOne \div Scale + 1)
                            \* 14 * 2^-16 = 0.000213..., the least even count whose
                            \* half is at least 10^-PRECISION
DefaultLength == CELL_LENGTH * UnitsPerOne
DefaultWidth == WALL_WIDTH * UnitsPerOne
DefaultHeight == WALL_HEIGHT * UnitsPerOne
DefaultFloorLength == FLOOR_LENGTH * UnitsPerOne
DefaultFloorWidth == FLOOR_WIDTH * UnitsPerOne

---------------------------------------------------------------------------
(* Cells and the grid.  A cell is <<x, y, floor>>; Maze2D uses floor 0.    *)

Cells(width, height, nfloors) ==
    { <<x, y, f>> : x \in 0..(width - 1), y \in 0..(height - 1), f \in 0..(nfloors - 1) }

EmptyGrid == [c \in {} |-> [connections |-> {}, neighbours |-> << >>, isVisited |-> FALSE]]

(* BaseMaze.isValidCell: y against grid.length, x against grid[0].length *)
isValidCell(width, height, x, y) ==
    y >= 0 /\ y < height /\ x >= 0 /\ x < width

(* Variant: the top floor is taken to be outside the grid *)
MutIsValidCell3DBelowTop(width, height, nfloors, x, y, f) ==
    f >= 0 /\ f < nfloors - 1 /\ y >= 0 /\ y < height /\ x >= 0 /\ x < width

(* Maze3D.isValidCell3D *)
isValidCell3D(width, height, nfloors, x, y, f) ==
    f >= 0 /\ f < nfloors /\ y >= 0 /\ y < height /\ x >= 0 /\ x < width

(* Array.filter over a sequence, order kept *)
RECURSIVE SeqFilter(_, _)
SeqFilter(s, keep) ==
    IF s = << >> THEN << >>
    ELSE IF Head(s) \in keep THEN << Head(s) >> \o SeqFilter(Tail(s), keep)
         ELSE SeqFilter(Tail(s), keep)

SeqRange(s) == { s[i] : i \in 1..Len(s) }

Offsets2D == << <<-1, 0>>, <<1, 0>>, <<0, -1>>, <<0, 1>> >>
Offsets3D == << <<-1, 0, 0>>, <<1, 0, 0>>, <<0, -1, 0>>, <<0, 1, 0>>, <<0, 0, -1>>, <<0, 0, 1>> >>

(* Maze2D.initializeGrid *)
initializeGrid(width, height) ==
    [c \in Cells(width, height, 1) |->
        [connections |-> {},
         neighbours |->
            LET cand == [i \in 1..4 |-> <<c[1] + Offsets2D[i][1], c[2] + Offsets2D[i][2], 0>>]
            IN SeqFilter(cand, { cand[i] : i \in { j \in 1..4 :
                    isValidCell(width, height, cand[j][1], cand[j][2]) } }),
         isVisited |-> FALSE]]

(* Maze3D.initializeGrid3D *)
initializeGrid3D(width, height, nfloors) ==
    [c \in Cells(width, height, nfloors) |->
        [connections |-> {},
         neighbours |->
            LET cand == [i \in 1..6 |-> <<c[1] + Offsets3D[i][1],
                                          c[2] + Offsets3D[i][2],
                                          c[3] + Offsets3D[i][3]>>]
            IN SeqFilter(cand, { cand[i] : i \in { j \in 1..6 :
                    isValidCell3D(width, height, nfloors, cand[j][1], cand[j][2], cand[j][3]) } }),
         isVisited |-> FALSE]]

---------------------------------------------------------------------------
(* The walk: generateMazePaths (Maze2D) and generateMazePaths3D (Maze3D)   *)

StartCell == <<0, 0, 0>>

totalCells(p) == p.width * p.height * p.floors

(* currentCell.neighbours.filter((n) => !n.isVisited) *)
unvisitedNeighbours(g, c) ==
    SeqFilter(g[c].neighbours, { n \in DOMAIN g : ~g[n].isVisited })

(* Mutant: the connection is added in one direction only *)
MutConnectOneWay(g, a, b) ==
    [g EXCEPT ![a].connections = @ \cup {b}]

(* currentCell.connections.add(nextCell); nextCell.connections.add(currentCell) *)
Connect(g, a, b) ==
    [g EXCEPT ![a].connections = @ \cup {b}, ![b].connections = @ \cup {a}]

MarkVisited(g, c) == [g EXCEPT ![c].isVisited = TRUE]

(* The while condition of the walk loop *)
WalkLoopCondition ==
    IF engine = "Maze2D"
    THEN Len(stack) > 0
    ELSE Len(stack) > 0 /\ visitedCount < totalCells(params)

(* No walk loop is running *)
NoWalkLog == [iterations |-> 0, pushes |-> << >>, pops |-> << >>]

(* const stack = [startCell], before the first test of the loop *)
StartedWalkLog(g) ==
    [iterations |-> 0,
     pushes |-> [c \in DOMAIN g |-> IF c = StartCell THEN 1 ELSE 0],
     pops |-> [c \in DOMAIN g |-> 0]]

(* One more iteration, with stack.push(c) *)
LogPush(log, c) ==
    [log EXCEPT !.iterations = @ + 1, !.pushes[c] = @ + 1]

(* One more iteration, with stack.pop() returning c *)
LogPop(log, c) ==
    [log EXCEPT !.iterations = @ + 1, !.pops[c] = @ + 1]

(* Variant: the if branch does not count the cell it visits *)
MutWalkForwardNoCount(i) ==
    /\ pc = "walk"
    /\ WalkLoopCondition
    /\ i \in 1..Len(unvisitedNeighbours(grid, currentCell))
    /\ LET nextCell == unvisitedNeighbours(grid, currentCell)[i]
       IN /\ grid' = MarkVisited(Connect(grid, currentCell, nextCell), nextCell)
          /\ stack' = Append(stack, nextCell)
          /\ currentCell' = nextCell
          /\ walkLog' = LogPush(walkLog, nextCell)
    /\ UNCHANGED << engine, pc, params, visitedCount, walls, floors, allPoints, centerPoint,
                    scene, gen, lastCall, material >>
    /\ UNCHANGED outsideMaze

(* Variant: the if branch pushes the cell it leaves as well as the one it *)
(* enters                                                                  *)
MutWalkForwardPushesBoth(i) ==
    /\ pc = "walk"
    /\ WalkLoopCondition
    /\ i \in 1..Len(unvisitedNeighbours(grid, currentCell))
    /\ LET nextCell == unvisitedNeighbours(grid, currentCell)[i]
       IN /\ grid' = MarkVisited(Connect(grid, currentCell, nextCell), nextCell)
          /\ stack' = stack \o << currentCell, nextCell >>
          /\ currentCell' = nextCell
          /\ walkLog' = LogPush([walkLog EXCEPT !.pushes[currentCell] = @ + 1], nextCell)
    /\ visitedCount' = IF engine = "Maze3D" THEN visitedCount + 1 ELSE visitedCount
    /\ UNCHANGED << engine, pc, params, walls, floors, allPoints, centerPoint,
                    scene, gen, lastCall, material >>
    /\ UNCHANGED outsideMaze

(* One iteration taking the if branch: index i is                          *)
(* Math.floor(Math.random() * unvisitedNeighbours.length) + 1              *)
WalkForward(i) ==
    /\ pc = "walk"
    /\ WalkLoopCondition
    /\ i \in 1..Len(unvisitedNeighbours(grid, currentCell))
    /\ LET nextCell == unvisitedNeighbours(grid, currentCell)[i]
       IN /\ grid' = MarkVisited(Connect(grid, currentCell, nextCell), nextCell)
          /\ stack' = Append(stack, nextCell)
          /\ currentCell' = nextCell
          /\ walkLog' = LogPush(walkLog, nextCell)
    /\ visitedCount' = IF engine = "Maze3D" THEN visitedCount + 1 ELSE visitedCount
    /\ UNCHANGED << engine, pc, params, walls, floors, allPoints, centerPoint,
                    scene, gen, lastCall, material >>
    /\ UNCHANGED outsideMaze

(* Mutant: a dead end ends the walk instead of backtracking *)
MutWalkBacktrackStops ==
    /\ pc = "walk"
    /\ WalkLoopCondition
    /\ unvisitedNeighbours(grid, currentCell) = << >>
    /\ currentCell' = currentCell
    /\ stack' = << >>
    /\ walkLog' = LogPop(walkLog, stack[Len(stack)])
    /\ UNCHANGED << engine, pc, params, grid, visitedCount, walls, floors, allPoints,
                    centerPoint, scene, gen, lastCall, material >>
    /\ UNCHANGED outsideMaze

(* One iteration taking the else branch: currentCell = stack.pop() *)
WalkBacktrack ==
    /\ pc = "walk"
    /\ WalkLoopCondition
    /\ unvisitedNeighbours(grid, currentCell) = << >>
    /\ currentCell' = stack[Len(stack)]
    /\ stack' = SubSeq(stack, 1, Len(stack) - 1)
    /\ walkLog' = LogPop(walkLog, stack[Len(stack)])
    /\ UNCHANGED << engine, pc, params, grid, visitedCount, walls, floors, allPoints,
                    centerPoint, scene, gen, lastCall, material >>
    /\ UNCHANGED outsideMaze

---------------------------------------------------------------------------
(* Keys: Number.prototype.toFixed and BaseMaze.getElementKey               *)

Abs(v) == IF v < 0 THEN -v ELSE v

(* Variant: the value is printed in full, nothing is rounded away *)
MutToFixedExact(v) == << v < 0, Abs(v) >>

(* v.toFixed(PRECISION): << sign printed, digits as a count of 10^-PRECISION >>, *)
(* nearest count, the larger one on a tie                                  *)
toFixed(v) ==
    LET a == Abs(v)
        q == a \div UnitsPerOne
        r == a % UnitsPerOne
    IN << v < 0, q * Scale + (r * 2 * Scale + UnitsPerOne) \div (2 * UnitsPerOne) >>

getElementKey(position, rotation, type) ==
    << type, toFixed(position[1]), toFixed(position[2]), toFixed(position[3]), toFixed(rotation) >>

(* Variant: every candidate is stored, whether or not its key is present *)
MutAddAlways(map, cand, type) ==
    Append(map, [key |-> getElementKey(cand.position, cand.rotation, type),
                 position |-> cand.position, rotation |-> cand.rotation, type |-> type])

(* addUniqueWall / addUniqueFloor: the Map is a sequence in insertion order *)
addUnique(map, cand, type) ==
    LET key == getElementKey(cand.position, cand.rotation, type)
    IN IF \E i \in 1..Len(map) : map[i].key = key
       THEN map
       ELSE Append(map, [key |-> key, position |-> cand.position,
                         rotation |-> cand.rotation, type |-> type])

RECURSIVE addUniqueFrom(_, _, _, _)
addUniqueFrom(map, cands, i, type) ==
    IF i > Len(cands) THEN map
    ELSE addUniqueFrom(addUnique(map, cands[i], type), cands, i + 1, type)

addUniqueAll(map, cands, type) == addUniqueFrom(map, cands, 1, type)

RECURSIVE Flatten(_)
Flatten(ss) == IF ss = << >> THEN << >> ELSE Head(ss) \o Flatten(Tail(ss))

Opt(cond, item) == IF cond THEN << item >> ELSE << >>

(* for (y...) for (x...) on one floor *)
ScanFloor(width, height, f) ==
    [i \in 1..(width * height) |-> << (i - 1) % width, (i - 1) \div width, f >>]

(* for (floor...) for (y...) for (x...) *)
ScanGrid(width, height, nfloors) ==
    [i \in 1..(width * height * nfloors) |->
        << (i - 1) % width, ((i - 1) \div width) % height, (i - 1) \div (width * height) >>]

---------------------------------------------------------------------------
(* World placement *)

offsetXOf(p) == -((p.width * p.itemLength) \div 2)
offsetZOf(p) == -((p.height * p.itemLength) \div 2)
offsetYOf(p, f) == f * p.itemHeight + p.itemHeight \div 2
worldXOf(p, x) == x * p.itemLength + offsetXOf(p) + p.itemLength \div 2
worldZOf(p, y) == y * p.itemLength + offsetZOf(p) + p.itemLength \div 2

Cand(x, y, z, rot) == [position |-> << x, y, z >>, rotation |-> rot]

(* Variant: the four walls are asked for whatever the connections are *)
MutInternalWallsEverywhere(g, p, c) ==
    LET worldX == worldXOf(p, c[1])
        worldZ == worldZOf(p, c[2])
        offsetY == offsetYOf(p, c[3])
        half == p.itemLength \div 2
    IN    Opt(c[2] > 0, Cand(worldX, offsetY, worldZ - half, HALF_PI))
       \o Opt(c[1] < p.width - 1, Cand(worldX + half, offsetY, worldZ, 0))
       \o Opt(c[2] < p.height - 1, Cand(worldX, offsetY, worldZ + half, HALF_PI))
       \o Opt(c[1] > 0, Cand(worldX - half, offsetY, worldZ, 0))

(* The four guarded addUniqueWall calls made for one cell *)
InternalWallCandidates(g, p, c) ==
    LET x == c[1]
        y == c[2]
        f == c[3]
        worldX == worldXOf(p, x)
        worldZ == worldZOf(p, y)
        offsetY == offsetYOf(p, f)
        half == p.itemLength \div 2
        hasNorth == << x, y - 1, f >> \in g[c].connections
        hasEast == << x + 1, y, f >> \in g[c].connections
        hasSouth == << x, y + 1, f >> \in g[c].connections
        hasWest == << x - 1, y, f >> \in g[c].connections
    IN    Opt(~hasNorth /\ y > 0, Cand(worldX, offsetY, worldZ - half, HALF_PI))
       \o Opt(~hasEast /\ x < p.width - 1, Cand(worldX + half, offsetY, worldZ, 0))
       \o Opt(~hasSouth /\ y < p.height - 1, Cand(worldX, offsetY, worldZ + half, HALF_PI))
       \o Opt(~hasWest /\ x > 0, Cand(worldX - half, offsetY, worldZ, 0))

(* Variant: the east side of the outline is left open *)
MutOuterWallsOpenEast(p, f) ==
    LET offsetX == offsetXOf(p)
        offsetZ == offsetZOf(p)
        offsetY == offsetYOf(p, f)
        mazeDepth == p.height * p.itemLength
    IN    [i \in 1..p.width |-> Cand(worldXOf(p, i - 1), offsetY, offsetZ, HALF_PI)]
       \o [i \in 1..p.width |-> Cand(worldXOf(p, i - 1), offsetY, offsetZ + mazeDepth, HALF_PI)]
       \o [i \in 1..p.height |-> Cand(offsetX, offsetY, worldZOf(p, i - 1), 0)]

(* Variant: the north and south sides of the outline are not turned *)
MutOuterWallsUnturned(p, f) ==
    LET offsetX == offsetXOf(p)
        offsetZ == offsetZOf(p)
        offsetY == offsetYOf(p, f)
        mazeWidth == p.width * p.itemLength
        mazeDepth == p.height * p.itemLength
    IN    [i \in 1..p.width |-> Cand(worldXOf(p, i - 1), offsetY, offsetZ, 0)]
       \o [i \in 1..p.width |-> Cand(worldXOf(p, i - 1), offsetY, offsetZ + mazeDepth, 0)]
       \o [i \in 1..p.height |-> Cand(offsetX, offsetY, worldZOf(p, i - 1), 0)]
       \o [i \in 1..p.height |-> Cand(offsetX + mazeWidth, offsetY, worldZOf(p, i - 1), 0)]

(* Maze2D.createOuterWalls / Maze3D.createOuterWalls3D for the floor f *)
createOuterWalls(p, f) ==
    LET offsetX == offsetXOf(p)
        offsetZ == offsetZOf(p)
        offsetY == offsetYOf(p, f)
        mazeWidth == p.width * p.itemLength
        mazeDepth == p.height * p.itemLength
    IN    [i \in 1..p.width |-> Cand(worldXOf(p, i - 1), offsetY, offsetZ, HALF_PI)]
       \o [i \in 1..p.width |-> Cand(worldXOf(p, i - 1), offsetY, offsetZ + mazeDepth, HALF_PI)]
       \o [i \in 1..p.height |-> Cand(offsetX, offsetY, worldZOf(p, i - 1), 0)]
       \o [i \in 1..p.height |-> Cand(offsetX + mazeWidth, offsetY, worldZOf(p, i - 1), 0)]

(* Variant: the outline of a floor is asked for before its internal walls *)
MutFloorWallsOuterFirst(g, p, f) ==
    createOuterWalls(p, f)
    \o Flatten([i \in 1..(p.width * p.height) |->
                  InternalWallCandidates(g, p, ScanFloor(p.width, p.height, f)[i])])

(* The addUniqueWall calls of one floor, in call order *)
FloorWallCandidates(g, p, f) ==
    Flatten([i \in 1..(p.width * p.height) |->
                InternalWallCandidates(g, p, ScanFloor(p.width, p.height, f)[i])])
    \o createOuterWalls(p, f)

(* Variant: a plate is asked for above a cell that is connected upwards too *)
MutFloorPlateAlways(g, p, c) ==
    Opt(c[3] < p.floors - 1,
        Cand(worldXOf(p, c[1]), (c[3] + 1) * p.itemHeight + p.itemHeight \div 2,
             worldZOf(p, c[2]), 0))

(* The addUniqueFloor call made for one cell of Maze3D *)
FloorPlateCandidates(g, p, c) ==
    LET hasUp == << c[1], c[2], c[3] + 1 >> \in g[c].connections
        nextFloorOffsetY == (c[3] + 1) * p.itemHeight + p.itemHeight \div 2
    IN Opt(c[3] < p.floors - 1 /\ ~hasUp,
           Cand(worldXOf(p, c[1]), nextFloorOffsetY, worldZOf(p, c[2]), 0))

(* uniqueWalls after all passes (2D: one floor; 3D: every floor) *)
uniqueWalls(g, p) ==
    addUniqueAll(<< >>,
                 Flatten([i \in 1..p.floors |-> FloorWallCandidates(g, p, i - 1)]),
                 "wall")

(* uniqueFloors after all passes (Maze3D only) *)
uniqueFloors(g, p) ==
    addUniqueAll(<< >>,
                 Flatten([i \in 1..totalCells(p) |->
                            FloorPlateCandidates(g, p, ScanGrid(p.width, p.height, p.floors)[i])]),
                 "floor")

(* No mesh exists: no material either *)
NoMaterial == [m \in {} |-> WALL]

(* BaseMaze.createWall / Maze3D.createFloor: a mesh, tagged with userData.type; *)
(* (g, n) stands for the identity of the JavaScript object                 *)
createMesh(entry, g, n) ==
    [type |-> entry.type, position |-> entry.position, rotation |-> entry.rotation,
     name |-> "", gen |-> g, n |-> n]

createMeshes(map, g, base) == [i \in 1..Len(map) |-> createMesh(map[i], g, base + i)]

(* BaseMaze.createSphere: no name is given to the mesh *)
createSphere(g) ==
    [type |-> "sphere", position |-> << 0, 0, 0 >>, rotation |-> 0,
     name |-> "", gen |-> g, n |-> 0]

(* Variant: the key leaves out the height *)
MutPositionKeyFlat(point) ==
    << toFixed(point.position[1]), toFixed(point.position[3]) >>

(* Variant: the key leaves out x *)
MutPositionKeyNoX(point) ==
    << toFixed(point.position[2]), toFixed(point.position[3]) >>

(* BaseMaze.deduplicateElements: Map.set keeps the slot of the first       *)
(* insertion and the value of the last                                     *)
positionKey(point) ==
    << toFixed(point.position[1]), toFixed(point.position[2]), toFixed(point.position[3]) >>

RECURSIVE dedupInto(_, _, _)
dedupInto(map, points, k) ==
    IF k > Len(points) THEN map
    ELSE LET pt == points[k]
             key == positionKey(pt)
             hit == { i \in 1..Len(map) : map[i].key = key }
         IN dedupInto(IF hit = {}
                      THEN Append(map, [key |-> key, point |-> pt])
                      ELSE [i \in 1..Len(map) |->
                               IF i \in hit THEN [key |-> key, point |-> pt] ELSE map[i]],
                      points, k + 1)

deduplicateElements(points) ==
    LET map == dedupInto(<< >>, points, 1)
    IN [i \in 1..Len(map) |-> map[i].point]

---------------------------------------------------------------------------
(* Maze3D.ensureFullConnectivity / connectIsolatedCell                     *)

Distance(a, b) == Abs(a[1] - b[1]) + Abs(a[2] - b[2]) + Abs(a[3] - b[3])

(* Variant: of the cells at the smallest distance the scan keeps the last *)
MutNearestVisitedLast(g, p, c) ==
    LET scan == ScanGrid(p.width, p.height, p.floors)
        vis == { i \in 1..Len(scan) : g[scan[i]].isVisited }
        best == { i \in vis : \A j \in vis :
                     \/ Distance(c, scan[i]) < Distance(c, scan[j])
                     \/ (Distance(c, scan[i]) = Distance(c, scan[j]) /\ i >= j) }
    IN { scan[i] : i \in best }

(* The scan keeps the first visited cell of strictly smallest distance *)
nearestVisited(g, p, c) ==
    LET scan == ScanGrid(p.width, p.height, p.floors)
        vis == { i \in 1..Len(scan) : g[scan[i]].isVisited }
        best == { i \in vis : \A j \in vis :
                     \/ Distance(c, scan[i]) < Distance(c, scan[j])
                     \/ (Distance(c, scan[i]) = Distance(c, scan[j]) /\ i <= j) }
    IN { scan[i] : i \in best }

(* Variant: the cell is connected to the nearest visited cell and to the *)
(* start cell                                                             *)
MutConnectIsolatedCellTwice(g, p, c) ==
    LET near == nearestVisited(g, p, c)
    IN IF near = {} THEN g
       ELSE MarkVisited(Connect(Connect(g, c, CHOOSE n \in near : TRUE), c, StartCell), c)

connectIsolatedCell(g, p, c) ==
    LET near == nearestVisited(g, p, c)
    IN IF near = {} THEN g
       ELSE MarkVisited(Connect(g, c, CHOOSE n \in near : TRUE), c)

RECURSIVE ensureFrom(_, _, _)
ensureFrom(g, p, i) ==
    IF i > totalCells(p) THEN g
    ELSE LET c == ScanGrid(p.width, p.height, p.floors)[i]
         IN ensureFrom(IF ~g[c].isVisited THEN connectIsolatedCell(g, p, c) ELSE g, p, i + 1)

ensureFullConnectivity(g, p) == ensureFrom(g, p, 1)

---------------------------------------------------------------------------
(* Teardown *)

(* scene.getObjectByName(name): the objects that carry the name *)
getObjectByName(sc, name) == { o \in sc : o.name = name }

getCenterSphereName == IF engine = "Maze3D" THEN "centerSphere3D" ELSE "centerSphere"

(* Variant: the floors are left attached *)
MutSceneAfterClearKeepsFloors(sc) ==
    sc \ (SeqRange(walls) \cup { o \in SeqRange(allPoints) : o.type # "floor" })

(* BaseMaze.clearMaze applied to a scene: walls and points detached, then  *)
(* the object found under the centre sphere's name, if centerPoint is set  *)
sceneAfterClear(sc) ==
    LET removed == sc \ (SeqRange(floors) \cup SeqRange(walls) \cup SeqRange(allPoints))
        found == getObjectByName(removed, getCenterSphereName)
    IN IF centerPoint # "null" /\ found # {}
       THEN removed \ { CHOOSE o \in found : TRUE }
       ELSE removed

(* Maze3D.clearMaze (floors, then super.clearMaze) and BaseMaze.clearMaze *)
ClearMaze ==
    /\ pc = "idle"
    /\ scene' = sceneAfterClear(scene)
    /\ floors' = << >>
    /\ walls' = << >>
    /\ allPoints' = << >>
    /\ grid' = EmptyGrid
    /\ centerPoint' = "null"
    /\ lastCall' = "clearMaze"
    /\ material' = NoMaterial
    /\ UNCHANGED << engine, pc, params, currentCell, stack, visitedCount, walkLog, gen >>
    /\ UNCHANGED outsideMaze

---------------------------------------------------------------------------
(* generate(params) *)

(* JavaScript values that are not numbers, as integers that no number of  *)
(* the model reaches.  undefined is what a missing parameter reads as.     *)
NaN == -(2 ^ 30)
JsNull == NaN - 1
JsUndefined == NaN - 2

(* ToNumber, applied by <, <=, >, >= and isNaN to their operands *)
ToNumber(v) == IF v = JsNull THEN 0 ELSE IF v = JsUndefined THEN NaN ELSE v

isNaN(v) == ToNumber(v) = NaN

(* a < b, a <= b, a > b in JavaScript: false as soon as one side is NaN *)
JsLess(a, b) == ~isNaN(a) /\ ~isNaN(b) /\ ToNumber(a) < ToNumber(b)
JsLessEq(a, b) == ~isNaN(a) /\ ~isNaN(b) /\ ToNumber(a) <= ToNumber(b)
JsGreater(a, b) == ~isNaN(a) /\ ~isNaN(b) /\ ToNumber(a) > ToNumber(b)

(* Maze2D.validateInput *)
validateInput2D(p) ==
    IF JsLessEq(p.itemLength, 0) \/ JsGreater(p.itemLength, 20 * UnitsPerOne)
    THEN [valid |-> FALSE, error |-> "Cell length must be between 0 and 20"]
    ELSE IF JsLessEq(p.itemWidth, 0) \/ JsGreater(p.itemWidth, 10 * UnitsPerOne)
    THEN [valid |-> FALSE, error |-> "Wall width must be between 0 and 10"]
    ELSE IF JsLessEq(p.itemHeight, 0) \/ JsGreater(p.itemHeight, 20 * UnitsPerOne)
    THEN [valid |-> FALSE, error |-> "Wall height must be between 0 and 20"]
    ELSE IF JsLess(p.width, 2) \/ JsGreater(p.width, 50)
    THEN [valid |-> FALSE, error |-> "Grid width must be between 2 and 50"]
    ELSE IF JsLess(p.height, 2) \/ JsGreater(p.height, 50)
    THEN [valid |-> FALSE, error |-> "Grid height must be between 2 and 50"]
    ELSE [valid |-> TRUE, error |-> "null"]

(* Maze3D.validateInput *)
validateInput3D(p) ==
    IF JsLessEq(p.itemLength, 0) \/ JsGreater(p.itemLength, 20 * UnitsPerOne)
    THEN [valid |-> FALSE, error |-> "Cell length must be between 0 and 20"]
    ELSE IF JsLessEq(p.itemWidth, 0) \/ JsGreater(p.itemWidth, 10 * UnitsPerOne)
    THEN [valid |-> FALSE, error |-> "Wall width must be between 0 and 10"]
    ELSE IF JsLessEq(p.itemHeight, 0) \/ JsGreater(p.itemHeight, 20 * UnitsPerOne)
    THEN [valid |-> FALSE, error |-> "Wall height must be between 0 and 20"]
    ELSE IF JsLessEq(p.floorLength, 0) \/ JsGreater(p.floorLength, 20 * UnitsPerOne)
    THEN [valid |-> FALSE, error |-> "Floor length must be between 0 and 20"]
    ELSE IF JsLessEq(p.floorWidth, 0) \/ JsGreater(p.floorWidth, 20 * UnitsPerOne)
    THEN [valid |-> FALSE, error |-> "Floor width must be between 0 and 20"]
    ELSE IF JsLess(p.width, 2) \/ JsGreater(p.width, 20)
    THEN [valid |-> FALSE, error |-> "Grid width must be between 2 and 20"]
    ELSE IF JsLess(p.height, 2) \/ JsGreater(p.height, 20)
    THEN [valid |-> FALSE, error |-> "Grid height must be between 2 and 20"]
    ELSE IF JsLess(p.floors, 2) \/ JsGreater(p.floors, MAX_FLOORS)
    THEN [valid |-> FALSE, error |-> "Floors must be between 2 and 10"]
    ELSE [valid |-> TRUE, error |-> "null"]

validateInput(p) == IF engine = "Maze3D" THEN validateInput3D(p) ELSE validateInput2D(p)

(* Arguments of generate.  Cell lengths: one below the resolution of the   *)
(* keys, one just above it, the default.  generate itself accepts widths   *)
(* and floor counts that validateInput would refuse (width 1, one floor).  *)
Lengths == { TinyLength, FineLength, DefaultLength }

Sizes3D == { << TinyLength, TinyLength >>, << FineLength, FineLength >>,
             << DefaultLength, DefaultHeight >> }

Params2D ==
    [itemLength : Lengths, itemWidth : { DefaultWidth }, itemHeight : { DefaultHeight },
     floorLength : { DefaultFloorLength }, floorWidth : { DefaultFloorWidth },
     width : 1..MaxWidth, height : 2..MaxHeight, floors : { 1 }]

Params3D ==
    { p \in UNION { [itemLength : { sz[1] }, itemWidth : { DefaultWidth }, itemHeight : { sz[2] },
                     floorLength : { DefaultFloorLength }, floorWidth : { DefaultFloorWidth },
                     width : 2..(MaxCells3D \div 4), height : 2..(MaxCells3D \div 4),
                     floors : 1..(MaxCells3D \div 4)] : sz \in Sizes3D } :
        totalCells(p) <= MaxCells3D }

(* The parameters drawn for an engine: Maze2D has a single floor *)
ParamsFor(e) == IF e = "Maze2D" THEN Params2D ELSE Params3D

NoParams ==
    [itemLength |-> 0, itemWidth |-> 0, itemHeight |-> 0, floorLength |-> 0, floorWidth |-> 0,
     width |-> 0, height |-> 0, floors |-> 0]

(* generate up to the first test of the walk loop: clearMaze, the grid,    *)
(* the start cell marked and pushed                                        *)
Generate(p) ==
    /\ pc = "idle"
    /\ gen < MaxGen
    /\ params' = p
    /\ gen' = gen + 1
    /\ scene' = sceneAfterClear(scene)
    /\ floors' = << >>
    /\ walls' = << >>
    /\ allPoints' = << >>
    /\ centerPoint' = "null"
    /\ grid' = MarkVisited(IF engine = "Maze2D"
                           THEN initializeGrid(p.width, p.height)
                           ELSE initializeGrid3D(p.width, p.height, p.floors),
                           StartCell)
    /\ currentCell' = StartCell
    /\ stack' = << StartCell >>
    /\ visitedCount' = IF engine = "Maze3D" THEN 1 ELSE 0
    /\ walkLog' = StartedWalkLog(grid')
    /\ pc' = "walk"
    /\ lastCall' = "generate"
    /\ material' = NoMaterial
    /\ UNCHANGED engine
    /\ UNCHANGED outsideMaze

(* generate from the exit of the walk loop to its return: the repair pass  *)
(* (Maze3D), the walls and floors, the centre marker, the final dedup.     *)
(* g, newWalls and newFloors are each computed once and bound.             *)
GenerateReturn ==
    /\ pc = "walk"
    /\ ~WalkLoopCondition
    /\ \E g \in { IF engine = "Maze3D" THEN ensureFullConnectivity(grid, params) ELSE grid } :
       \E newWalls \in { createMeshes(uniqueWalls(g, params), gen, 0) } :
       \E newFloors \in { IF engine = "Maze3D"
                        THEN createMeshes(uniqueFloors(g, params), gen, Len(newWalls))
                        ELSE << >> } :
          /\ grid' = g
          /\ walls' = walls \o newWalls
          /\ floors' = floors \o newFloors
          /\ allPoints' = deduplicateElements(allPoints \o newWalls \o newFloors)
          /\ scene' = scene \cup SeqRange(newWalls) \cup SeqRange(newFloors)
                            \cup { createSphere(gen) }
          /\ material' = [m \in SeqRange(newWalls) \cup SeqRange(newFloors) |->
                             IF m.type = "floor" THEN FLOOR ELSE WALL]
    /\ centerPoint' = "origin"
    /\ pc' = "idle"
    /\ currentCell' = StartCell
    /\ stack' = << >>
    /\ visitedCount' = 0
    /\ walkLog' = NoWalkLog
    /\ UNCHANGED << engine, params, gen, lastCall >>
    /\ UNCHANGED outsideMaze

---------------------------------------------------------------------------
(* new Maze2D(scene) / new Maze3D(scene) *)
MazeConstructed ==
    /\ engine \in { "Maze2D", "Maze3D" }
    /\ pc = "idle"
    /\ params = NoParams
    /\ grid = EmptyGrid
    /\ currentCell = StartCell
    /\ stack = << >>
    /\ visitedCount = 0
    /\ walkLog = NoWalkLog
    /\ walls = << >>
    /\ floors = << >>
    /\ allPoints = << >>
    /\ centerPoint = "null"
    /\ scene = {}
    /\ gen = 0
    /\ lastCall = "none"
    /\ material = NoMaterial

(* No validator or handler has been called *)
NoCallMade == call = [fn |-> "none"] /\ ret = [outcome |-> "none"]

(* No call of Grid.generate made yet *)
NoGridArgs ==
    [rows |-> 0, columns |-> 0, floors |-> 0, spacing |-> 0, stepAmount |-> 0,
     startPoint |-> << 0, 0, 0 >>]

(* new Grid(scene) *)
GridConstructed ==
    /\ gridArgs = NoGridArgs
    /\ gridPc = "idle"
    /\ path = << >>
    /\ visited = {}
    /\ current = << 0, 0, 0 >>
    /\ gridPoints = << >>

(* null, where the other values are objects *)
JsNullObject == [kind |-> "null"]

(* new FileHandlers() *)
FileHandlersConstructed ==
    /\ uploadedDesign = JsNullObject
    /\ uploadedFloorDesign = JsNullObject
    /\ processedDesign = JsNullObject
    /\ readers = << >>
    /\ sinceReset = [reset |-> FALSE, uploaded |-> FALSE, processed |-> FALSE]

(* new Wheel(scene) *)
WheelConstructed ==
    wheel = [allPoints |-> << >>, pairPoints |-> << >>, segmentPoints |-> << >>,
             color |-> << >>]

Init ==
    /\ MazeConstructed /\ NoCallMade /\ GridConstructed /\ FileHandlersConstructed
    /\ WheelConstructed

---------------------------------------------------------------------------
(* Highlighting: BaseMaze.highlightPoint / resetPointColor                  *)

(* Variant: BaseMaze.getOriginalColor, which Maze3D overrides *)
MutOriginalColorOfBase(element) == WALL

(* BaseMaze.getHighlightColor and its override in Maze3D *)
getHighlightColor(element) ==
    IF engine = "Maze3D" /\ element.type = "floor" THEN FLOOR_HIGHLIGHT ELSE HIGHLIGHT

(* BaseMaze.getOriginalColor and its override in Maze3D *)
getOriginalColor(element) ==
    IF engine = "Maze3D" /\ element.type = "floor" THEN FLOOR ELSE WALL

(* highlightPoint(index) on the colours m; index counts from 0 and an      *)
(* index with no element does nothing                                      *)
highlightPoint(m, index) ==
    IF index >= 0 /\ index < Len(allPoints)
    THEN [m EXCEPT ![allPoints[index + 1]] = getHighlightColor(allPoints[index + 1])]
    ELSE m

resetPointColor(m, index) ==
    IF index >= 0 /\ index < Len(allPoints)
    THEN [m EXCEPT ![allPoints[index + 1]] = getOriginalColor(allPoints[index + 1])]
    ELSE m

(* Elements that do not show the colour they were created with *)
Highlighted(m) == { el \in DOMAIN m : m[el] # (IF el.type = "floor" THEN FLOOR ELSE WALL) }

HighlightPoint(index) ==
    /\ pc = "idle"
    /\ material' = highlightPoint(material, index)
    /\ Cardinality(Highlighted(material')) <= MaxHighlighted
    /\ lastCall' = "highlightPoint"
    /\ UNCHANGED << engine, pc, params, grid, currentCell, stack, visitedCount, walkLog,
                    walls, floors, allPoints, centerPoint, scene, gen >>
    /\ UNCHANGED outsideMaze

ResetPointColor(index) ==
    /\ pc = "idle"
    /\ material' = resetPointColor(material, index)
    /\ lastCall' = "resetPointColor"
    /\ UNCHANGED << engine, pc, params, grid, currentCell, stack, visitedCount, walkLog,
                    walls, floors, allPoints, centerPoint, scene, gen >>
    /\ UNCHANGED outsideMaze

(* The mazes on which highlighting is followed: 2 x 2 cells of the default *)
(* size, on one floor or two                                               *)
HighlightParams ==
    { p \in Params2D \cup Params3D :
        /\ p.itemLength = DefaultLength
        /\ p.width = 2 /\ p.height = 2 /\ p.floors <= 2 }

NextHighlight ==
    \/ \E p \in HighlightParams \cap ParamsFor(engine) : Generate(p)
    \/ \E i \in 1..6 : WalkForward(i)
    \/ WalkBacktrack
    \/ GenerateReturn
    \/ ClearMaze
    \/ \E index \in 0..Len(allPoints) : HighlightPoint(index)
    \/ \E index \in 0..Len(allPoints) : ResetPointColor(index)

SpecHighlight == Init /\ [][NextHighlight]_vars

---------------------------------------------------------------------------
Next ==
    \/ \E p \in ParamsFor(engine) : Generate(p)
    \/ \E i \in 1..6 : WalkForward(i)
    \/ WalkBacktrack
    \/ GenerateReturn
    \/ ClearMaze

Spec == Init /\ [][Next]_vars

(* generate runs its walk loop to the end without yielding: a loop whose   *)
(* condition holds runs another iteration                                  *)
SpecWalkFair ==
    /\ Init
    /\ [][Next]_vars
    /\ WF_vars((\E i \in 1..6 : WalkForward(i)) \/ WalkBacktrack)

---------------------------------------------------------------------------
(* Maze3D.generate on a 3 x 3 x 4 grid up to the return of                 *)
(* generateMazePaths3D, the random choices of the first iterations of the  *)
(* walk loop fixed, the later ones free                                    *)

WalkParams3x3x4 ==
    [itemLength |-> DefaultLength, itemWidth |-> DefaultWidth, itemHeight |-> DefaultHeight,
     floorLength |-> DefaultFloorLength, floorWidth |-> DefaultFloorWidth,
     width |-> 3, height |-> 3, floors |-> 4]

(* nextCell of the first iterations, in order *)
FirstChoices ==
    << <<0, 1, 0>>, <<1, 1, 0>>, <<1, 2, 0>>, <<2, 2, 0>>, <<2, 2, 1>>,
       <<1, 2, 1>>, <<1, 2, 2>>, <<0, 2, 2>>, <<0, 2, 3>>, <<0, 1, 3>>,
       <<1, 1, 3>>, <<1, 0, 3>>, <<2, 0, 3>>, <<2, 0, 2>>, <<2, 1, 2>>,
       <<2, 1, 1>>, <<2, 1, 0>>, <<2, 0, 0>>, <<1, 0, 0>>, <<1, 0, 1>>,
       <<1, 1, 1>>, <<0, 1, 1>>, <<0, 2, 1>>, <<0, 2, 0>> >>

(* WalkForward with Math.random giving the fixed choice while one is left *)
WalkForwardFrom(i) ==
    /\ pc = "walk"
    /\ i \in 1..Len(unvisitedNeighbours(grid, currentCell))
    /\ visitedCount <= Len(FirstChoices)
          => unvisitedNeighbours(grid, currentCell)[i] = FirstChoices[visitedCount]
    /\ WalkForward(i)

(* Maze3D.generate from the return of generateMazePaths3D to the return   *)
(* of ensureFullConnectivity                                               *)
EnsureFullConnectivity ==
    /\ pc = "walk"
    /\ engine = "Maze3D"
    /\ ~WalkLoopCondition
    /\ grid' = ensureFullConnectivity(grid, params)
    /\ pc' = "repaired"
    /\ UNCHANGED << engine, params, currentCell, stack, visitedCount, walkLog, walls,
                    floors, allPoints, centerPoint, scene, gen, lastCall, material >>
    /\ UNCHANGED outsideMaze

NextWalk3x3x4 ==
    \/ engine = "Maze3D" /\ Generate(WalkParams3x3x4)
    \/ \E i \in 1..6 : WalkForwardFrom(i)
    \/ WalkBacktrack
    \/ EnsureFullConnectivity

SpecWalk3x3x4 == Init /\ [][NextWalk3x3x4]_vars

---------------------------------------------------------------------------
(* Validators of utils/constants.js and the maze handlers of               *)
(* ShapeControllers.  A call is recorded with its arguments in call and    *)
(* its outcome in ret: [outcome |-> "returned", value |-> ...] or          *)
(* [outcome |-> "threw", error |-> ...].                                   *)

Returned(v) == [outcome |-> "returned", value |-> v]
Threw(e) == [outcome |-> "threw", error |-> e]

(* Variant: the two ends of the range are refused *)
MutValidateRangeOpen(value, min, max, name) ==
    IF value = JsNull \/ value = JsUndefined \/ isNaN(value)
    THEN Threw([name |-> name, text |-> "is required and must be a number"])
    ELSE IF JsLessEq(value, min) \/ ~JsLess(value, max)
    THEN Threw([name |-> name, text |-> "must be between", min |-> min, max |-> max])
    ELSE Returned(TRUE)

(* validateRange(value, min, max, name) *)
validateRange(value, min, max, name) ==
    IF value = JsNull \/ value = JsUndefined \/ isNaN(value)
    THEN Threw([name |-> name, text |-> "is required and must be a number"])
    ELSE IF JsLess(value, min) \/ JsGreater(value, max)
    THEN Threw([name |-> name, text |-> "must be between", min |-> min, max |-> max])
    ELSE Returned(TRUE)

(* A File: whether one was selected, its name as stem and extension with   *)
(* the case it is written in, and its size in bytes                        *)
toLowerCase(ext) == IF ext = ".JSON" THEN ".json" ELSE IF ext = ".Json" THEN ".json" ELSE ext

(* validateJsonFile(file) *)
validateJsonFile(file) ==
    IF ~file.selected
    THEN Threw("No file selected")
    ELSE IF toLowerCase(file.ext) # ".json"
    THEN Threw("File must be a JSON file (.json extension)")
    ELSE IF file.size > 10 * 1024 * 1024
    THEN Threw("File size must be less than 10MB")
    ELSE Returned(TRUE)

(* The text of a form field: empty, an integer, or an integer followed by  *)
(* a fraction ("2.5").  parseInt reads the leading integer.                *)
parseInt(text) == IF text.kind = "empty" THEN NaN ELSE text.whole

(* The first of the validateRange calls that throws, else the last result *)
RECURSIVE firstThrow(_, _)
firstThrow(checks, k) ==
    IF k > Len(checks) THEN Returned(TRUE)
    ELSE LET r == validateRange(checks[k][1], checks[k][2], checks[k][3], checks[k][4])
         IN IF r.outcome = "threw" THEN r ELSE firstThrow(checks, k + 1)

(* ShapeControllers.generateMaze up to the call of the engine: what the    *)
(* engine is called with, or the error that is alerted                     *)
generateMaze(form) ==
    LET cellLength == parseInt(form.mazeLength)
        wallWidth == parseInt(form.mazeWidth)
        wallHeight == parseInt(form.mazeHeight)
        gridWidth == parseInt(form.mazeDimensionX)
        gridHeight == parseInt(form.mazeDimensionY)
        checked == firstThrow(<< << cellLength, 1, 20, "Cell Length" >>,
                                 << wallWidth, 1, 10, "Wall Width" >>,
                                 << wallHeight, 1, 20, "Wall Height" >>,
                                 << gridWidth, 3, 50, "Grid Width" >>,
                                 << gridHeight, 3, 50, "Grid Height" >> >>, 1)
    IN IF checked.outcome = "threw"
       THEN [outcome |-> "alert", error |-> checked.error]
       ELSE [outcome |-> "engine called",
             args |-> << cellLength, wallWidth, wallHeight, gridWidth, gridHeight >>]

(* ShapeControllers.generateMaze3D up to the call of the engine *)
generateMaze3D(form) ==
    LET floorLength == parseInt(form.maze3dFloorLength)
        floorWidth == parseInt(form.maze3dFloorWidth)
        gridWidth == parseInt(form.maze3dDimensionX)
        gridHeight == parseInt(form.maze3dDimensionY)
        nfloors == parseInt(form.maze3dFloors)
        checked == firstThrow(<< << floorLength, 1, 20, "Floor Length" >>,
                                 << floorWidth, 1, 20, "Floor Width" >>,
                                 << gridWidth, 2, 20, "Grid Width" >>,
                                 << gridHeight, 2, 20, "Grid Height" >>,
                                 << nfloors, 1, 10, "Floors" >> >>, 1)
    IN IF checked.outcome = "threw"
       THEN [outcome |-> "alert", error |-> checked.error]
       ELSE [outcome |-> "engine called",
             args |-> << floorLength, floorWidth, gridWidth, gridHeight, nfloors >>]

(* Arguments tried on validateInput: a record the validator accepts with   *)
(* one field replaced by a value at or around an end of its range, or by   *)
(* something that is not a number                                          *)
AcceptedParams ==
    [itemLength |-> DefaultLength, itemWidth |-> DefaultWidth, itemHeight |-> DefaultHeight,
     floorLength |-> DefaultFloorLength, floorWidth |-> DefaultFloorWidth,
     width |-> 2, height |-> 2, floors |-> 2]

LengthProbes(max) ==
    { NaN, JsUndefined, JsNull, -UnitsPerOne, 0, 1, max * UnitsPerOne, max * UnitsPerOne + 1 }

CountProbes(max) == { NaN, JsUndefined, JsNull, 1, 2, max, max + 1 }

ProbeParams ==
    { [AcceptedParams EXCEPT !.itemLength = v] : v \in LengthProbes(20) }
    \cup { [AcceptedParams EXCEPT !.itemWidth = v] : v \in LengthProbes(10) }
    \cup { [AcceptedParams EXCEPT !.itemHeight = v] : v \in LengthProbes(20) }
    \cup { [AcceptedParams EXCEPT !.floorLength = v] : v \in LengthProbes(20) }
    \cup { [AcceptedParams EXCEPT !.floorWidth = v] : v \in LengthProbes(20) }
    \cup { [AcceptedParams EXCEPT !.width = v] : v \in CountProbes(20) \cup CountProbes(50) }
    \cup { [AcceptedParams EXCEPT !.height = v] : v \in CountProbes(20) \cup CountProbes(50) }
    \cup { [AcceptedParams EXCEPT !.floors = v] : v \in CountProbes(MAX_FLOORS) }

(* validateInput(params) called on the engine *)
ValidateInput(p) ==
    /\ call' = [fn |-> "validateInput", params |-> p]
    /\ ret' = Returned(validateInput(p))
    /\ UNCHANGED << mazeVars, gridVars, fileVars, wheelVars >>

(* validateRange(value, min, max, name) *)
RangeProbes == { NaN, JsNull, JsUndefined } \cup (-1..4)

ValidateRange(value, min, max) ==
    /\ min <= max
    /\ call' = [fn |-> "validateRange", value |-> value, min |-> min, max |-> max]
    /\ ret' = validateRange(value, min, max, "Value")
    /\ UNCHANGED << mazeVars, gridVars, fileVars, wheelVars >>

(* validateJsonFile(file) *)
SizeLimit == 10 * 1024 * 1024

Files ==
    [selected : BOOLEAN, ext : { ".json", ".JSON", ".txt", "" },
     size : { 0, SizeLimit - 1, SizeLimit, SizeLimit + 1 }]

ValidateJsonFile(file) ==
    /\ call' = [fn |-> "validateJsonFile", file |-> file]
    /\ ret' = validateJsonFile(file)
    /\ UNCHANGED << mazeVars, gridVars, fileVars, wheelVars >>

(* The maze forms: every field at its default except the grid sizes and    *)
(* the number of floors                                                    *)
Integer(n) == [kind |-> "integer", whole |-> n]

FieldTexts(max) ==
    { [kind |-> "empty", whole |-> 0], [kind |-> "decimal", whole |-> 2] }
    \cup { Integer(n) : n \in { 0, 1, 2, 3, max, max + 1 } }

MazeForms ==
    [mazeLength : { Integer(CELL_LENGTH) }, mazeWidth : { Integer(WALL_WIDTH) },
     mazeHeight : { Integer(WALL_HEIGHT) },
     mazeDimensionX : FieldTexts(50), mazeDimensionY : FieldTexts(50)]

Maze3DForms ==
    [maze3dFloorLength : { Integer(FLOOR_LENGTH) }, maze3dFloorWidth : { Integer(FLOOR_WIDTH) },
     maze3dDimensionX : FieldTexts(20), maze3dDimensionY : FieldTexts(20),
     maze3dFloors : FieldTexts(MAX_FLOORS)]

(* The Generate button of the maze panel *)
GenerateMazeClicked(form) ==
    /\ call' = [fn |-> "generateMaze", form |-> form]
    /\ ret' = generateMaze(form)
    /\ UNCHANGED << mazeVars, gridVars, fileVars, wheelVars >>

(* The Generate button of the 3D maze panel *)
GenerateMaze3DClicked(form) ==
    /\ call' = [fn |-> "generateMaze3D", form |-> form]
    /\ ret' = generateMaze3D(form)
    /\ UNCHANGED << mazeVars, gridVars, fileVars, wheelVars >>

NextCalls ==
    \/ \E p \in ProbeParams : ValidateInput(p)
    \/ \E value \in RangeProbes, min \in 0..3, max \in 0..3 : ValidateRange(value, min, max)
    \/ \E file \in Files : ValidateJsonFile(file)
    \/ \E form \in MazeForms : GenerateMazeClicked(form)
    \/ \E form \in Maze3DForms : GenerateMaze3DClicked(form)

SpecCalls == Init /\ [][NextCalls]_vars

---------------------------------------------------------------------------
(* Grid (shapes/Grid.js).  Cells are << row, col, floor >>, counted from 0. *)
(* Positions are kept doubled in x and z, since half the extent of the     *)
(* grid, (columns - 1) * spacing / 2, need not be whole.                   *)

Min(a, b) == IF a < b THEN a ELSE b
Max(a, b) == IF a > b THEN a ELSE b

(* Variant: the walk never looks up *)
MutDirectionsNoUp == << << 0, 1 >>, << 1, 0 >>, << 0, -1 >> >>

(* directions: Right, Down, Left, Up *)
directions == << << 0, 1 >>, << 1, 0 >>, << 0, -1 >>, << -1, 0 >> >>

(* The neighbour of cell c in direction d, clamped to the grid *)
clampedNeighbour(c, d, rows, columns) ==
    << Min(Max(c[1] + d[1], 0), rows - 1), Min(Max(c[2] + d[2], 0), columns - 1), c[3] >>

(* The first direction, from k on, whose neighbour is not in seen; 0 if none *)
RECURSIVE firstUnvisited(_, _, _, _, _)
firstUnvisited(c, seen, rows, columns, k) ==
    IF k > Len(directions) THEN 0
    ELSE IF clampedNeighbour(c, directions[k], rows, columns) \notin seen THEN k
    ELSE firstUnvisited(c, seen, rows, columns, k + 1)

(* The points of generate: one per cell of the path, except that a cell    *)
(* above the previous point only raises that point                         *)
gridPosition(a, cell, i) ==
    [x2 |-> 0 - (a.columns - 1) * a.spacing + 2 * cell[2] * a.spacing,
     y |-> 0 + i * a.stepAmount - (IF cell[3] >= 1 THEN cell[3] * a.stepAmount ELSE 0),
     z2 |-> 0 - (a.rows - 1) * a.spacing + 2 * cell[1] * a.spacing]

RECURSIVE pointsOfPath(_, _, _, _)
pointsOfPath(a, cells, k, acc) ==
    IF k > Len(cells) THEN acc
    ELSE LET point == gridPosition(a, cells[k], k - 1)
             n == Len(acc)
         IN IF n > 0 /\ acc[n].x2 = point.x2 /\ acc[n].z2 = point.z2
            THEN pointsOfPath(a, cells, k + 1, [acc EXCEPT ![n].y = point.y])
            ELSE pointsOfPath(a, cells, k + 1, Append(acc, point))

GridParams ==
    [rows : 1..MaxRows, columns : 1..MaxColumns, floors : 1..MaxGridFloors,
     spacing : { 1, 4 }, stepAmount : { 2 }]

(* generate up to the first test of the loop of generateGridPath: the old  *)
(* points cleared, the start corner drawn                                  *)
GridGenerate(p, atLastRow, atLastColumn) ==
    /\ gridPc = "idle"
    /\ gridArgs' = [rows |-> p.rows, columns |-> p.columns, floors |-> p.floors,
                    spacing |-> p.spacing, stepAmount |-> p.stepAmount,
                    startPoint |-> << IF atLastRow THEN p.rows - 1 ELSE 0,
                                      IF atLastColumn THEN p.columns - 1 ELSE 0, 0 >>]
    /\ gridPoints' = << >>
    /\ path' = << >>
    /\ visited' = {}
    /\ current' = gridArgs'.startPoint
    /\ gridPc' = "path"
    /\ UNCHANGED << mazeVars, callVars, fileVars, wheelVars >>

(* One turn of the loop of generateGridPath, with the test of the loop    *)
(* that follows it                                                         *)
GridPathStep ==
    /\ gridPc = "path"
    /\ Len(path) < gridArgs.rows * gridArgs.columns * gridArgs.floors
    /\ path' = Append(path, current)
    /\ visited' = visited \cup { current }
    /\ LET k == firstUnvisited(current, visited', gridArgs.rows, gridArgs.columns, 1)
           again == Len(path') < gridArgs.rows * gridArgs.columns * gridArgs.floors
       IN IF k # 0
          THEN /\ current' = clampedNeighbour(current, directions[k], gridArgs.rows, gridArgs.columns)
               /\ gridPc' = IF again THEN "path" ELSE "returned"
          ELSE IF current[3] < gridArgs.floors - 1
          THEN /\ current' = << current[1], current[2], current[3] + 1 >>
               /\ gridPc' = IF again THEN "path" ELSE "returned"
          ELSE /\ current' = current
               /\ gridPc' = "returned"
    /\ UNCHANGED << gridArgs, gridPoints >>
    /\ UNCHANGED << mazeVars, callVars, fileVars, wheelVars >>

(* The rest of generate: the points of the path, a sphere for each *)
GridGenerateReturn ==
    /\ gridPc = "returned"
    /\ gridPoints' = pointsOfPath(gridArgs, path, 1, << >>)
    /\ gridPc' = "idle"
    /\ UNCHANGED << gridArgs, path, visited, current >>
    /\ UNCHANGED << mazeVars, callVars, fileVars, wheelVars >>

NextGrid ==
    \/ \E p \in GridParams, atLastRow \in BOOLEAN, atLastColumn \in BOOLEAN :
           GridGenerate(p, atLastRow, atLastColumn)
    \/ GridPathStep
    \/ GridGenerateReturn

SpecGrid == Init /\ [][NextGrid]_vars

---------------------------------------------------------------------------
(* FileHandlers (ui/FileHandlers.js).  A design is the parsed content of   *)
(* an uploaded file; what matters of it here is whether it parses, has a   *)
(* name and a transform, and whether its attachments are a list (forEach   *)
(* exists only on a list).  readers holds the FileReaders whose onload has *)
(* not run yet.                                                            *)

Design(name, attachments) == [kind |-> "design", name |-> name, attachments |-> attachments]

Contents ==
    { Design("A", "list"), Design("B", "not a list"),
      [kind |-> "no name"], [kind |-> "no transform"], [kind |-> "not JSON"] }

UploadFiles ==
    { [selected |-> FALSE, ext |-> "", size |-> 0, content |-> [kind |-> "not JSON"]],
      [selected |-> TRUE, ext |-> ".txt", size |-> 1024, content |-> Design("A", "list")] }
    \cup { [selected |-> TRUE, ext |-> ".json", size |-> 1024, content |-> c] : c \in Contents }

Called(fn, outcome) == call' = [fn |-> fn] /\ ret' = outcome

(* handleFileUpload / handleFloorFileUpload up to reader.readAsText(file) *)
HandleUpload(target, file) ==
    /\ Called(target, IF ~file.selected THEN Returned("undefined")
                      ELSE IF validateJsonFile(file).outcome = "threw"
                      THEN [outcome |-> "alert", error |-> validateJsonFile(file).error]
                      ELSE Returned("undefined"))
    /\ IF file.selected /\ validateJsonFile(file).outcome = "returned"
       THEN /\ Len(readers) < MaxReaders
            /\ readers' = Append(readers, [target |-> target, content |-> file.content])
       ELSE readers' = readers
    /\ UNCHANGED << uploadedDesign, uploadedFloorDesign, processedDesign, sinceReset >>
    /\ UNCHANGED << mazeVars, gridVars, wheelVars >>

HandleFileUpload(file) == HandleUpload("handleFileUpload", file)

HandleFloorFileUpload(file) == HandleUpload("handleFloorFileUpload", file)

(* reader.onload of the k-th reader in flight *)
ReaderOnload(k) ==
    /\ k \in 1..Len(readers)
    /\ readers' = SubSeq(readers, 1, k - 1) \o SubSeq(readers, k + 1, Len(readers))
    /\ LET reader == readers[k]
           accepted == reader.content.kind = "design"
       IN /\ Called("onload", IF accepted THEN Returned("undefined")
                               ELSE [outcome |-> "alert", error |-> reader.content.kind])
          /\ uploadedDesign' = IF accepted /\ reader.target = "handleFileUpload"
                               THEN reader.content ELSE uploadedDesign
          /\ uploadedFloorDesign' = IF accepted /\ reader.target = "handleFloorFileUpload"
                                    THEN reader.content ELSE uploadedFloorDesign
          /\ sinceReset' = IF accepted /\ reader.target = "handleFileUpload"
                           THEN [sinceReset EXCEPT !.uploaded = TRUE] ELSE sinceReset
    /\ UNCHANGED processedDesign
    /\ UNCHANGED << mazeVars, gridVars, wheelVars >>

(* processDesign(shapeType, wheel, maze, maze3d); hasPoints: the shape has *)
(* points                                                                  *)
ProcessDesign(hasPoints) ==
    /\ IF uploadedDesign = JsNullObject \/ ~hasPoints
       THEN /\ Called("processDesign", Returned(FALSE))
            /\ UNCHANGED << processedDesign, sinceReset >>
       ELSE IF uploadedDesign.attachments = "list"
       THEN /\ Called("processDesign", Returned(TRUE))
            /\ processedDesign' = [kind |-> "processed", name |-> uploadedDesign.name,
                                   complete |-> TRUE]
            /\ sinceReset' = [sinceReset EXCEPT !.processed = TRUE]
       ELSE /\ Called("processDesign", Returned(FALSE))
            /\ processedDesign' = [kind |-> "processed", name |-> uploadedDesign.name,
                                   complete |-> FALSE]
            /\ UNCHANGED sinceReset
    /\ UNCHANGED << uploadedDesign, uploadedFloorDesign, readers >>
    /\ UNCHANGED << mazeVars, gridVars, wheelVars >>

(* downloadProcessedJSON(shapeType) *)
DownloadProcessedJSON ==
    /\ Called("downloadProcessedJSON",
              IF processedDesign = JsNullObject THEN Returned(FALSE)
              ELSE IF uploadedDesign = JsNullObject THEN Returned(FALSE)
              ELSE Returned(TRUE))
    /\ UNCHANGED fileVars
    /\ UNCHANGED << mazeVars, gridVars, wheelVars >>

(* reset() *)
Reset ==
    /\ Called("reset", Returned("undefined"))
    /\ uploadedDesign' = JsNullObject
    /\ uploadedFloorDesign' = JsNullObject
    /\ processedDesign' = JsNullObject
    /\ sinceReset' = [reset |-> TRUE, uploaded |-> FALSE, processed |-> FALSE]
    /\ UNCHANGED readers
    /\ UNCHANGED << mazeVars, gridVars, wheelVars >>

NextFiles ==
    \/ \E file \in UploadFiles : HandleFileUpload(file)
    \/ \E file \in UploadFiles : HandleFloorFileUpload(file)
    \/ \E k \in 1..MaxReaders : ReaderOnload(k)
    \/ \E hasPoints \in BOOLEAN : ProcessDesign(hasPoints)
    \/ DownloadProcessedJSON
    \/ Reset

SpecFiles == Init /\ [][NextFiles]_vars

---------------------------------------------------------------------------
(* Graph notions used by the properties *)

(* The undirected edges of the connection graph *)
Edges(g) ==
    { { ab[1], ab[2] } : ab \in { cd \in (DOMAIN g) \X (DOMAIN g) :
                                    cd[2] \in g[cd[1]].connections } }

RECURSIVE ReachFrom(_, _)
ReachFrom(g, seen) ==
    LET more == seen \cup UNION { g[c].connections : c \in seen }
    IN IF more = seen THEN seen ELSE ReachFrom(g, more)

VisitedCells(g) == { c \in DOMAIN g : g[c].isVisited }

(* The walk loop has been left and generate has not yet gone on *)
WalkReturned == pc = "walk" /\ ~WalkLoopCondition

(* generate has returned and nothing was called since *)
MazeBuilt == pc = "idle" /\ lastCall = "generate"

---------------------------------------------------------------------------
(* Maze3D.ensureFullConnectivity on the grid states of small grids: the    *)
(* visited cells form a tree of neighbour connections, the other cells are *)
(* as initializeGrid3D leaves them; or no cell is visited at all           *)

RepairSizes == { << 2, 2, 2 >>, << 3, 3, 1 >> }

RepairParams ==
    { [itemLength |-> DefaultLength, itemWidth |-> DefaultWidth, itemHeight |-> DefaultHeight,
       floorLength |-> DefaultFloorLength, floorWidth |-> DefaultFloorWidth,
       width |-> sz[1], height |-> sz[2], floors |-> sz[3]] : sz \in RepairSizes }

(* The pairs of cells that are neighbours of each other *)
NeighbourPairs(p) ==
    { { a, b } : a, b \in Cells(p.width, p.height, p.floors) } \
        { e \in { { a, b } : a, b \in Cells(p.width, p.height, p.floors) } :
            \A a, b \in e : Distance(a, b) # 1 }

(* The grid whose connections are the pairs of es and whose visited cells  *)
(* are those of vs                                                         *)
GridOf(p, vs, es) ==
    [c \in Cells(p.width, p.height, p.floors) |->
        [connections |-> { d \in Cells(p.width, p.height, p.floors) : { c, d } \in es /\ c # d },
         neighbours |-> initializeGrid3D(p.width, p.height, p.floors)[c].neighbours,
         isVisited |-> c \in vs]]

(* Trees of neighbour connections, each with the cells it joins *)
TreeGrids(p) ==
    { GridOf(p, UNION es, es) :
        es \in { t \in SUBSET NeighbourPairs(p) :
                  /\ t # {}
                  /\ Cardinality(UNION t) = Cardinality(t) + 1
                  /\ \E r \in UNION t :
                        ReachFrom(GridOf(p, UNION t, t), { r }) = UNION t } }

(* One visited cell and no connection *)
SingleCellGrids(p) ==
    { GridOf(p, { c }, {}) : c \in Cells(p.width, p.height, p.floors) }

GridStates(p) == TreeGrids(p) \cup SingleCellGrids(p) \cup { GridOf(p, {}, {}) }

InitRepair ==
    /\ engine = "Maze3D"
    /\ pc = "walk"
    /\ params \in RepairParams
    /\ grid \in GridStates(params)
    /\ currentCell = StartCell
    /\ stack = << >>
    /\ visitedCount = Cardinality(VisitedCells(grid))
    /\ walkLog = NoWalkLog
    /\ walls = << >>
    /\ floors = << >>
    /\ allPoints = << >>
    /\ centerPoint = "null"
    /\ scene = {}
    /\ gen = 1
    /\ lastCall = "generate"
    /\ material = NoMaterial
    /\ NoCallMade /\ GridConstructed /\ FileHandlersConstructed /\ WheelConstructed

NextRepair == EnsureFullConnectivity

SpecRepair == InitRepair /\ [][NextRepair]_vars

---------------------------------------------------------------------------
(* Wheel (shapes/Wheel.js) with the highlighting of BaseShape.  A sphere   *)
(* is the createSphere call that made it: its role, the repetition i and   *)
(* the segment j of the loops, and the colour passed.  Positions are not   *)
(* read by highlightPoint, resetPointColor or getOriginalPointColor and    *)
(* are left out; wheel.color[k] is allPoints[k - 1].material.color.        *)

createWheelSphere(role, i, j, color) ==
    [role |-> role, i |-> i, j |-> j, createdWith |-> color]

(* What one iteration of the for (i...) loop pushes to this.allPoints *)
RepetitionPoints(i, segments) ==
    << createWheelSphere("edge", i, 0, POINT) >>
        \o [j \in 1..segments |-> createWheelSphere("segment", i, j, SEGMENT)]

(* Wheel.generate({repetitions, segments}) *)
WheelGenerated(repetitions, segments) ==
    LET perRepetition == [k \in 1..repetitions |-> RepetitionPoints(k - 1, segments)]
        points == << createWheelSphere("reference", 1, 0, POINT),
                     createWheelSphere("reference", 2, 0, POINT),
                     createWheelSphere("center", 0, 0, CENTER) >>
                      \o Flatten(perRepetition)
    IN [allPoints |-> points,
        pairPoints |-> [k \in 1..repetitions |-> perRepetition[k][1]],
        segmentPoints |-> Flatten([k \in 1..repetitions |-> Tail(perRepetition[k])]),
        color |-> [k \in 1..Len(points) |-> points[k].createdWith]]

(* Wheel.getOriginalPointColor(index) *)
getOriginalPointColor(w, index) ==
    IF index < 2 THEN POINT
    ELSE IF index = 2 THEN CENTER
    ELSE IF index < 3 + Len(w.pairPoints) THEN POINT
    ELSE SEGMENT

(* BaseShape.highlightPoint(index): an index with no element does nothing *)
wheelHighlightPoint(w, index) ==
    IF index >= 0 /\ index < Len(w.allPoints)
    THEN [w EXCEPT !.color[index + 1] = HIGHLIGHT]
    ELSE w

(* BaseShape.resetPointColor(index) *)
wheelResetPointColor(w, index) ==
    IF index >= 0 /\ index < Len(w.allPoints)
    THEN [w EXCEPT !.color[index + 1] = getOriginalPointColor(w, index)]
    ELSE w

WheelGenerate(repetitions, segments) ==
    /\ wheel' = WheelGenerated(repetitions, segments)
    /\ UNCHANGED << mazeVars, callVars, gridVars, fileVars >>

WheelHighlightPoint(index) ==
    /\ wheel' = wheelHighlightPoint(wheel, index)
    /\ Cardinality({ k \in 1..Len(wheel.allPoints) : wheel'.color[k] = HIGHLIGHT })
           <= MaxHighlighted
    /\ UNCHANGED << mazeVars, callVars, gridVars, fileVars >>

WheelResetPointColor(index) ==
    /\ wheel' = wheelResetPointColor(wheel, index)
    /\ UNCHANGED << mazeVars, callVars, gridVars, fileVars >>

NextWheel ==
    \/ \E repetitions \in 1..MaxRepetitions : \E segments \in 0..MaxSegments :
          WheelGenerate(repetitions, segments)
    \/ \E index \in 0..Len(wheel.allPoints) : WheelHighlightPoint(index)
    \/ \E index \in 0..Len(wheel.allPoints) : WheelResetPointColor(index)

SpecWheel == Init /\ [][NextWheel]_vars

---------------------------------------------------------------------------
(* C1: when Maze2D.generateMazePaths returns on a W x H grid (W, H >= 2),  *)
(* the connection graph has exactly W*H - 1 undirected edges and every     *)
(* cell is reachable from cell (0,0) along connections.                    *)
C1_SpanningTree2D ==
    (engine = "Maze2D" /\ WalkReturned /\ params.width >= 2 /\ params.height >= 2)
        => /\ Cardinality(Edges(grid)) = params.width * params.height - 1
           /\ ReachFrom(grid, { StartCell }) = DOMAIN grid

(* A 3 x 3 walk has returned and its tree branches *)
C1_Witness ==
    /\ engine = "Maze2D" /\ WalkReturned
    /\ params.width = 3 /\ params.height = 3
    /\ \E c \in DOMAIN grid : Cardinality(grid[c].connections) = 3

(* C2: when Maze3D.generateMazePaths3D returns every cell is visited, so   *)
(* ensureFullConnectivity changes nothing and the connection graph is a    *)
(* spanning tree with numCells - 1 edges.                                  *)
C2_WalkVisitsAll3D ==
    (engine = "Maze3D" /\ WalkReturned)
        => /\ VisitedCells(grid) = DOMAIN grid
           /\ ensureFullConnectivity(grid, params) = grid
           /\ Cardinality(Edges(grid)) = totalCells(params) - 1
           /\ ReachFrom(grid, { StartCell }) = DOMAIN grid

---------------------------------------------------------------------------
(* Geometry used by the properties, written from the layout itself: the    *)
(* maze is centred on the origin, cell (x, y) spans one itemLength in X    *)
(* and Z, and floor f spans one itemHeight in Y.                           *)

CentreX(p, x) == ((2 * x + 1 - p.width) * p.itemLength) \div 2
CentreZ(p, y) == ((2 * y + 1 - p.height) * p.itemLength) \div 2
(* Cell edge number k along X (0 is the west side of the grid, width the east) *)
EdgeX(p, k) == ((2 * k - p.width) * p.itemLength) \div 2
EdgeZ(p, k) == ((2 * k - p.height) * p.itemLength) \div 2
(* Mid-height of floor f, where its walls are centred *)
LevelY(p, f) == ((2 * f + 1) * p.itemHeight) \div 2

(* Indices of the returned list holding an element of the kind at the position *)
ElementsAt(type, position) ==
    { i \in 1..Len(allPoints) :
        allPoints[i].type = type /\ allPoints[i].position = position }

(* Walls of the returned list standing on the outline of floor f *)
PerimeterWalls(p, f) ==
    { i \in 1..Len(allPoints) :
        /\ allPoints[i].type = "wall"
        /\ allPoints[i].position[2] = LevelY(p, f)
        /\ \/ allPoints[i].position[1] \in { EdgeX(p, 0), EdgeX(p, p.width) }
           \/ allPoints[i].position[3] \in { EdgeZ(p, 0), EdgeZ(p, p.height) } }

(* Positions a cell length and a wall height apart differ in their keys:   *)
(* half a cell and a whole floor are at least 10^-PRECISION                *)
Resolvable(p) ==
    LET step == (UnitsPerOne + Scale - 1) \div Scale   \* 10^-PRECISION, rounded up
    IN p.itemLength \div 2 >= step /\ p.itemHeight >= step

(* v rounded to PRECISION decimals with the sign it prints with, from the  *)
(* whole part and the remainder of the fraction                            *)
Rounded(v) ==
    LET a == IF v < 0 THEN -v ELSE v
        whole == a \div UnitsPerOne
        scaled == (a % UnitsPerOne) * Scale
        k == scaled \div UnitsPerOne
    IN << v < 0, whole * Scale + (IF 2 * (scaled - k * UnitsPerOne) >= UnitsPerOne
                                  THEN k + 1 ELSE k) >>

(* (kind, rounded position, rounded rotationY) of an element *)
RoundedKey(el) ==
    << el.type, Rounded(el.position[1]), Rounded(el.position[2]), Rounded(el.position[3]),
       Rounded(el.rotation) >>


(* The walls the claim C3 asks for: between two cells side by side on one  *)
(* floor, one wall on the shared boundary when they are not connected and  *)
(* none when they are.                                                     *)
WallsComplementConnections ==
    \A a \in DOMAIN grid :
        LET east == << a[1] + 1, a[2], a[3] >>
            south == << a[1], a[2] + 1, a[3] >>
            y == LevelY(params, a[3])
        IN /\ east \in DOMAIN grid =>
                Cardinality(ElementsAt("wall", << EdgeX(params, a[1] + 1), y,
                                                  CentreZ(params, a[2]) >>))
                    = (IF east \in grid[a].connections THEN 0 ELSE 1)
           /\ south \in DOMAIN grid =>
                Cardinality(ElementsAt("wall", << CentreX(params, a[1]), y,
                                                  EdgeZ(params, a[2] + 1) >>))
                    = (IF south \in grid[a].connections THEN 0 ELSE 1)

OutlineComplete ==
    \A f \in 0..(params.floors - 1) :
        LET y == LevelY(params, f)
        IN /\ \A x \in 0..(params.width - 1) :
                /\ Cardinality(ElementsAt("wall", << CentreX(params, x), y,
                                                     EdgeZ(params, 0) >>)) = 1
                /\ Cardinality(ElementsAt("wall", << CentreX(params, x), y,
                                                     EdgeZ(params, params.height) >>)) = 1
           /\ \A z \in 0..(params.height - 1) :
                /\ Cardinality(ElementsAt("wall", << EdgeX(params, 0), y,
                                                     CentreZ(params, z) >>)) = 1
                /\ Cardinality(ElementsAt("wall", << EdgeX(params, params.width), y,
                                                     CentreZ(params, z) >>)) = 1
           /\ Cardinality(PerimeterWalls(params, f)) = 2 * (params.width + params.height)

(* C4 as stated: for every grid and connection graph, each cell edge that  *)
(* faces outside the grid has exactly one wall in the returned list, so    *)
(* each floor has 2 * (width + height) perimeter walls, whatever the cell  *)
(* length.                                                                 *)
C4_AsStated == MazeBuilt => OutlineComplete

(* C4, amended: the same, for a cell length of at least 0.0002 and a wall  *)
(* height of at least 0.0001.                                              *)
C4_OutlineComplete == (MazeBuilt /\ Resolvable(params)) => OutlineComplete

(* A three-floor maze of resolvable size whose corner cell is connected    *)
(* to a neighbour along the outline                                        *)
C4_Witness ==
    /\ engine = "Maze3D" /\ MazeBuilt /\ Resolvable(params)
    /\ params.floors = 3
    /\ << 1, 0, 2 >> \in grid[<< 0, 0, 2 >>].connections

(* C5: in the list returned by generate no two elements have the same      *)
(* (kind, position rounded to PRECISION decimals, rotationY rounded to     *)
(* PRECISION decimals).                                                    *)
C5_NoDuplicateKeys ==
    MazeBuilt =>
        \A i, j \in 1..Len(allPoints) :
            RoundedKey(allPoints[i]) = RoundedKey(allPoints[j]) => i = j

(* A maze was returned whose list is shorter than the meshes created:      *)
(* elements that met at one rounded position were merged                   *)
C5_Witness ==
    /\ MazeBuilt
    /\ Len(allPoints) > 0
    /\ Len(allPoints) < Len(walls) + Len(floors)

(* Floor boundary f lies between floor f and floor f + 1 *)
VerticalConnections(f) ==
    { c \in DOMAIN grid : c[3] = f /\ << c[1], c[2], f + 1 >> \in grid[c].connections }

(* Plates of the returned list lying in the boundary f *)
FloorPlates(f) ==
    { i \in 1..Len(allPoints) :
        /\ allPoints[i].type = "floor"
        /\ allPoints[i].position[2] = LevelY(params, f + 1) }

VerticalComplement ==
    \A f \in 0..(params.floors - 2) :
        Cardinality(VerticalConnections(f)) + Cardinality(FloorPlates(f))
            = params.width * params.height

(* C6 as stated: in every 3D maze, for every pair of adjacent floors the   *)
(* vertical connections between them plus the floor plates of that         *)
(* boundary number width * height, whatever the cell length.               *)
C6_AsStated == (engine = "Maze3D" /\ MazeBuilt) => VerticalComplement

(* C6, amended: the same, for a cell length of at least 0.0002 and a wall  *)
(* height of at least 0.0001.                                              *)
C6_VerticalComplement ==
    (engine = "Maze3D" /\ MazeBuilt /\ Resolvable(params)) => VerticalComplement

(* A three-floor maze of resolvable size with two boundaries, one crossed  *)
(* by a single connection and one by more                                  *)
C6_Witness ==
    /\ engine = "Maze3D" /\ MazeBuilt /\ Resolvable(params)
    /\ params.floors = 3
    /\ Cardinality(VerticalConnections(0)) = 1
    /\ Cardinality(VerticalConnections(1)) > 1


(* C8 as stated: a generate call whose parameters validateInput refuses,   *)
(* made on an engine that holds a maze, leaves the walls, the floors, the  *)
(* element list, the grid and the scene as they were.                      *)
C8_InvalidCallLeavesMaze ==
    [][ (pc = "idle" /\ pc' = "walk" /\ walls # << >> /\ ~validateInput(params').valid)
            => UNCHANGED << walls, floors, allPoints, grid, scene >> ]_vars

(* Walls and floors attached to the scene *)
AttachedElements == { o \in scene : o.type \in { "wall", "floor" } }

(* C9: between calls, the walls and floors attached to the scene are       *)
(* exactly those made by the latest generate, none of an earlier           *)
(* generation; after clearMaze none is attached and walls, floors,         *)
(* allPoints and grid are empty.                                           *)
C9_SceneHoldsLatestMaze ==
    pc = "idle" =>
        /\ lastCall = "generate" =>
              /\ AttachedElements = SeqRange(walls) \cup SeqRange(floors)
              /\ SeqRange(allPoints) \subseteq AttachedElements
              /\ \A o \in AttachedElements : o.gen = gen
        /\ lastCall = "clearMaze" =>
              /\ AttachedElements = {}
              /\ walls = << >> /\ floors = << >> /\ allPoints = << >>
              /\ DOMAIN grid = {}

(* A second 3D maze, with floor plates, stands after the first was replaced *)
C9_Witness ==
    /\ engine = "Maze3D" /\ MazeBuilt
    /\ gen = 2
    /\ floors # << >>

(* Centre markers attached to the scene *)
CentreMarkers == { o \in scene : o.type = "sphere" }

(* C10 as stated: between calls the scene holds exactly one centre marker  *)
(* if the last call was generate and none if it was clearMaze.             *)
C10_OneCentreMarker ==
    pc = "idle" =>
        Cardinality(CentreMarkers) = (IF lastCall = "generate" THEN 1 ELSE 0)


(* Walls of the returned list *)
WallElements == { i \in 1..Len(allPoints) : allPoints[i].type = "wall" }

(* The counts the claim C11 gives for a W x H maze of one floor *)
WallCounts2D ==
    LET W == params.width
        H == params.height
        perimeter == PerimeterWalls(params, 0)
    IN /\ Cardinality(perimeter) = 2 * (W + H)
       /\ Cardinality(WallElements \ perimeter) = (W - 1) * H + W * (H - 1) - (W * H - 1)
       /\ Cardinality(WallElements) = (W + 1) * (H + 1)
       /\ Len(walls) = (W + 1) * (H + 1)

C12_AsStated ==
    MazeBuilt =>
        /\ Cardinality({ i \in 1..Len(allPoints) : allPoints[i].type = "sphere" }) = 1
        /\ Len(allPoints) = Len(walls) + Len(floors) + 1

(* C12, amended: the returned list holds walls and floors only; the centre *)
(* marker is attached to the scene and is not in the list.  The list is    *)
(* never longer than wall count + floor count, and has exactly that length *)
(* for a cell length of at least 0.0002 and a wall height of at least      *)
(* 0.0001.                                                                 *)
C12_ListHoldsWallsAndFloors ==
    MazeBuilt =>
        /\ \A i \in 1..Len(allPoints) : allPoints[i].type \in { "wall", "floor" }
        /\ SeqRange(allPoints) \subseteq SeqRange(walls) \cup SeqRange(floors)
        /\ \E o \in scene : o.type = "sphere" /\ o.gen = gen
        /\ Len(allPoints) <= Len(walls) + Len(floors)
        /\ Resolvable(params) => Len(allPoints) = Len(walls) + Len(floors)

(* A 2 x 2 maze of the default size is returned as a list of 9 elements *)
C12_Witness ==
    /\ engine = "Maze2D" /\ MazeBuilt
    /\ params.itemLength = DefaultLength
    /\ params.width = 2 /\ params.height = 2
    /\ Len(allPoints) = 9


(* The colour a mesh is created with, by its kind *)
BaseColour(el) == IF el.type = "floor" THEN FLOOR ELSE WALL

(* C13: for every valid index i whose element shows its base colour,       *)
(* highlightPoint(i) changes the colour of element i only, and             *)
(* resetPointColor(i) after it gives every element the colour it had       *)
(* before: the wall colour for a wall, the floor colour for a floor.       *)
C13_HighlightRoundTrip ==
    pc = "idle" =>
        \A index \in 0..(Len(allPoints) - 1) :
            LET el == allPoints[index + 1]
                lit == highlightPoint(material, index)
            IN material[el] = BaseColour(el) =>
                  /\ lit[el] # material[el]
                  /\ \A o \in DOMAIN material : o # el => lit[o] = material[o]
                  /\ resetPointColor(lit, index) = material
                  /\ resetPointColor(lit, index)[el] = BaseColour(el)

(* resetPointColor was the last call on a 3D maze that has floor plates    *)
(* and walls in its list, and every element shows its base colour          *)
C13_Witness ==
    /\ engine = "Maze3D" /\ pc = "idle"
    /\ lastCall = "resetPointColor"
    /\ \E i, j \in 1..Len(allPoints) : allPoints[i].type = "floor" /\ allPoints[j].type = "wall"
    /\ Highlighted(material) = {}


(* C14: validateInput of the 2D and of the 3D engine returns valid: true   *)
(* exactly when every checked parameter is a number inside its documented  *)
(* range, and valid: false for any violation of range or of type; the call *)
(* changes no state of the engine.                                         *)
IsNumber(v) == v \notin { NaN, JsNull, JsUndefined }

InRange(v, low, high, lowIncluded) ==
    IsNumber(v) /\ (IF lowIncluded THEN low <= v ELSE low < v) /\ v <= high

DocumentedInput(p) ==
    /\ InRange(p.itemLength, 0, 20 * UnitsPerOne, FALSE)
    /\ InRange(p.itemWidth, 0, 10 * UnitsPerOne, FALSE)
    /\ InRange(p.itemHeight, 0, 20 * UnitsPerOne, FALSE)
    /\ IF engine = "Maze2D"
       THEN InRange(p.width, 2, 50, TRUE) /\ InRange(p.height, 2, 50, TRUE)
       ELSE /\ InRange(p.width, 2, 20, TRUE) /\ InRange(p.height, 2, 20, TRUE)
            /\ InRange(p.floors, 2, 10, TRUE)
            /\ InRange(p.floorLength, 0, 20 * UnitsPerOne, FALSE)
            /\ InRange(p.floorWidth, 0, 20 * UnitsPerOne, FALSE)

C14_ValidExactlyInRanges ==
    call.fn = "validateInput" =>
        /\ ret.value.valid <=> DocumentedInput(call.params)
        /\ MazeConstructed

(* C15: the maze panels call the engine exactly when the grid width and    *)
(* height typed are within 2..50 (2D) or 2..20 (3D) and the number of      *)
(* floors within 2..10; any other value is answered with an error message  *)
(* and the engine is not called.                                           *)
TypedWithin(text, low, high) ==
    /\ text.kind # "empty"
    /\ low <= text.whole
    /\ IF text.kind = "decimal" THEN text.whole < high ELSE text.whole <= high

DocumentedForm ==
    IF call.fn = "generateMaze"
    THEN /\ TypedWithin(call.form.mazeDimensionX, 2, 50)
         /\ TypedWithin(call.form.mazeDimensionY, 2, 50)
    ELSE /\ TypedWithin(call.form.maze3dDimensionX, 2, 20)
         /\ TypedWithin(call.form.maze3dDimensionY, 2, 20)
         /\ TypedWithin(call.form.maze3dFloors, 2, 10)

C15_EngineCalledExactlyInRanges ==
    call.fn \in { "generateMaze", "generateMaze3D" } =>
        /\ ret.outcome \in { "engine called", "alert" }
        /\ ret.outcome = "engine called" <=> DocumentedForm

(* C16: validateRange returns true exactly when the value is a number with *)
(* min <= value <= max, both ends included, and throws when the value is   *)
(* below min, above max, NaN, null or undefined.                           *)
C16_ValidateRangeInclusive ==
    call.fn = "validateRange" =>
        LET inside == IsNumber(call.value) /\ call.min <= call.value /\ call.value <= call.max
        IN /\ inside => ret = [outcome |-> "returned", value |-> TRUE]
           /\ ~inside => ret.outcome = "threw"

C16_Witness ==
    /\ call.fn = "validateRange"
    /\ call.min < call.max
    /\ call.value = call.max
    /\ ret.outcome = "returned"

(* C17: validateJsonFile throws when no file is given, when the name does  *)
(* not end in .json, and when the size is 10 * 1024 * 1024 bytes or more;  *)
(* it returns true for a .json file below that size.                       *)
EndsInJson(file) == file.ext \in { ".json", ".JSON", ".Json" }

C17_JsonFileBelowLimit ==
    call.fn = "validateJsonFile" =>
        LET refused == \/ ~call.file.selected
                       \/ ~EndsInJson(call.file)
                       \/ call.file.size >= 10 * 1024 * 1024
        IN /\ refused => ret.outcome = "threw"
           /\ ~refused => ret = [outcome |-> "returned", value |-> TRUE]


(* C18: with one floor, whatever the rows and columns (1 or more) and the  *)
(* start corner, generateGridPath returns rows * columns cells, pairwise   *)
(* distinct and inside the grid, and generate leaves rows * columns points *)
(* in allPoints.                                                           *)
C18_GridPathCovers ==
    (gridArgs.floors = 1 /\ gridPc \in { "returned", "idle" }) =>
        /\ Len(path) = gridArgs.rows * gridArgs.columns
        /\ \A i, j \in 1..Len(path) : i # j => path[i] # path[j]
        /\ \A i \in 1..Len(path) :
               /\ path[i][1] \in 0..(gridArgs.rows - 1)
               /\ path[i][2] \in 0..(gridArgs.columns - 1)
               /\ path[i][3] = 0
        /\ gridPc = "idle" => Len(gridPoints) = gridArgs.rows * gridArgs.columns

C18_Witness ==
    /\ gridPc = "idle"
    /\ gridArgs.floors = 1
    /\ gridArgs.rows = 3
    /\ gridArgs.columns = 3
    /\ gridArgs.startPoint = << 2, 2, 0 >>
    /\ Len(gridPoints) = 9


(* C19: after reset() the three designs are null, whatever was uploaded or *)
(* processed before; from then on processDesign returns false until a new  *)
(* design has been uploaded, and downloadProcessedJSON returns false until *)
(* a new design has been uploaded and processed.                           *)
C19_ResetThenFalse ==
    /\ call.fn = "reset" =>
           /\ uploadedDesign = JsNullObject
           /\ uploadedFloorDesign = JsNullObject
           /\ processedDesign = JsNullObject
    /\ (sinceReset.reset /\ call.fn = "processDesign" /\ ~sinceReset.uploaded) =>
           ret = [outcome |-> "returned", value |-> FALSE]
    /\ (sinceReset.reset /\ call.fn = "downloadProcessedJSON"
            /\ ~(sinceReset.uploaded /\ sinceReset.processed)) =>
           ret = [outcome |-> "returned", value |-> FALSE]


(* C20: the walk backtracks as a depth-first search with a stack does: at  *)
(* every step of the walk, every visited cell that is neither on the stack *)
(* nor the current cell has no unvisited neighbour.                        *)
Abandoned == { c \in VisitedCells(grid) : c # currentCell /\ c \notin SeqRange(stack) }

C20_AbandonedCellsExhausted ==
    pc = "walk" => \A c \in Abandoned : unvisitedNeighbours(grid, c) = << >>

---------------------------------------------------------------------------
(* Position of a cell in the floor, row, column scan *)
ScanRank(p, c) == (c[3] * p.height + c[2]) * p.width + c[1]

(* The cells that are visited when the scan reaches the unvisited cell c: *)
(* those visited before the pass and the unvisited ones scanned earlier    *)
VisitedWhenReached(g, p, c) ==
    VisitedCells(g) \cup { u \in DOMAIN g : ~g[u].isVisited /\ ScanRank(p, u) < ScanRank(p, c) }

(* Of these the cells at minimum Manhattan distance from c, the first in   *)
(* scan order                                                              *)
NearestFirst(g, p, c) ==
    { n \in VisitedWhenReached(g, p, c) :
        \A m \in VisitedWhenReached(g, p, c) \ { n } :
            \/ Distance(c, n) < Distance(c, m)
            \/ (Distance(c, n) = Distance(c, m) /\ ScanRank(p, n) < ScanRank(p, m)) }

(* C21: on a grid with at least one visited cell, ensureFullConnectivity   *)
(* connects every unvisited cell, taken in floor, row, column order, to    *)
(* the visited cell of minimum Manhattan distance (the first in scan order *)
(* on ties), in both directions, and marks it visited; no cell is left     *)
(* unvisited and nothing else changes.                                     *)
C21_RepairConnectsNearest ==
    [][(EnsureFullConnectivity /\ VisitedCells(grid) # {}) =>
          \A c \in DOMAIN grid :
             /\ grid'[c].isVisited
             /\ grid'[c].neighbours = grid[c].neighbours
             /\ grid'[c].connections =
                   grid[c].connections
                   \cup (IF grid[c].isVisited THEN {} ELSE NearestFirst(grid, params, c))
                   \cup { u \in DOMAIN grid : ~grid[u].isVisited
                                               /\ c \in NearestFirst(grid, params, u) }]_vars

(* The pass has run on a grid with three or more unvisited cells and has  *)
(* connected a cell to a cell that is not its neighbour                    *)
C21_Witness ==
    /\ pc = "repaired"
    /\ \E c \in DOMAIN grid : \E d \in grid[c].connections : Distance(c, d) >= 2
    /\ visitedCount <= Cardinality(DOMAIN grid) - 3

---------------------------------------------------------------------------
(* The grid without the connection between the two cells of e *)
WithoutEdge(g, e) ==
    [c \in DOMAIN g |-> IF c \in e THEN [g[c] EXCEPT !.connections = @ \ e] ELSE g[c]]

(* Some connection closes a cycle: its ends stay joined without it *)
HasCycle(g) ==
    \E e \in Edges(g) : \E a \in e : e \subseteq ReachFrom(WithoutEdge(g, e), { a })

(* C22 as stated: there is a grid state with cells left unvisited for      *)
(* which, after ensureFullConnectivity, the connection graph has more than *)
(* numCells - 1 edges and contains a cycle.                                *)
C22_AsStated ==
    pc = "walk" =>
        \E g \in GridStates(params) :
            /\ VisitedCells(g) # DOMAIN g
            /\ Cardinality(Edges(ensureFullConnectivity(g, params))) > totalCells(params) - 1
            /\ HasCycle(ensureFullConnectivity(g, params))

(* C22: from every grid state in which the visited cells form a tree and   *)
(* the unvisited cells have no connection, ensureFullConnectivity leaves a *)
(* connection graph of exactly numCells - 1 edges that joins all cells and *)
(* has no cycle.                                                           *)
C22_RepairKeepsTree ==
    (pc = "repaired" /\ visitedCount >= 1)
        => /\ Cardinality(Edges(grid)) = totalCells(params) - 1
           /\ ReachFrom(grid, { StartCell }) = DOMAIN grid
           /\ ~HasCycle(grid)

(* The pass has run on a two-floor grid with a single visited cell and has *)
(* made every connection of the graph                                      *)
C22_Witness ==
    /\ pc = "repaired"
    /\ visitedCount = 1
    /\ params.floors = 2
    /\ Cardinality(Edges(grid)) = totalCells(params) - 1

---------------------------------------------------------------------------
(* Place of a wall in the order floor, row, column, direction (north,      *)
(* east, south, west): a wall between two cells belongs to the first cell  *)
(* of the scan that it bounds, on that cell's east or south side; the      *)
(* outline of a floor comes after the walls inside it                      *)
WallPlace(p, el) ==
    LET f == CHOOSE k \in 0..(p.floors - 1) : LevelY(p, k) = el.position[2]
        outline == \/ el.position[1] \in { EdgeX(p, 0), EdgeX(p, p.width) }
                   \/ el.position[3] \in { EdgeZ(p, 0), EdgeZ(p, p.height) }
        row == IF el.rotation = 0
               THEN CHOOSE r \in 0..(p.height - 1) : CentreZ(p, r) = el.position[3]
               ELSE (CHOOSE k \in 1..(p.height - 1) : EdgeZ(p, k) = el.position[3]) - 1
        col == IF el.rotation = 0
               THEN (CHOOSE k \in 1..(p.width - 1) : EdgeX(p, k) = el.position[1]) - 1
               ELSE CHOOSE c \in 0..(p.width - 1) : CentreX(p, c) = el.position[1]
        dir == IF el.rotation = 0 THEN 2 ELSE 3
    IN IF outline
       THEN ((f * 2 + 1) * p.height * p.width) * 4
       ELSE (((f * 2) * p.height + row) * p.width + col) * 4 + dir

WallsFirstInOrder ==
    \A i, j \in 1..Len(allPoints) :
        i < j =>
            /\ ~(allPoints[i].type = "floor" /\ allPoints[j].type = "wall")
            /\ (allPoints[i].type = "wall" /\ allPoints[j].type = "wall")
                  => \/ WallPlace(params, allPoints[i]) < WallPlace(params, allPoints[j])
                     \/ /\ WallPlace(params, allPoints[i]) = WallPlace(params, allPoints[j])
                        /\ WallPlace(params, allPoints[i]) % 4 = 0

(* C23 as stated: in the list returned by Maze3D.generate every wall       *)
(* precedes every floor and the walls are in insertion order by floor,     *)
(* row, column and direction, whatever the cell length.                    *)
C23_AsStated == (engine = "Maze3D" /\ MazeBuilt) => WallsFirstInOrder

(* C23, amended: the same, for a cell length of at least 0.0002 and a wall *)
(* height of at least 0.0001; within a floor the walls between cells come  *)
(* first, by row, column and direction, and the outline after them.        *)
C23_WallsFirstInOrder ==
    (engine = "Maze3D" /\ MazeBuilt /\ Resolvable(params)) => WallsFirstInOrder

(* A two-floor maze of resolvable size with walls inside both floors and a *)
(* floor plate                                                             *)
C23_Witness ==
    /\ engine = "Maze3D" /\ MazeBuilt /\ Resolvable(params)
    /\ params.floors = 2
    /\ \E i, j, k \in 1..Len(allPoints) :
          /\ allPoints[i].type = "wall" /\ allPoints[j].type = "wall"
          /\ allPoints[k].type = "floor"
          /\ allPoints[i].position[2] # allPoints[j].position[2]
          /\ WallPlace(params, allPoints[i]) % 4 # 0
          /\ WallPlace(params, allPoints[j]) % 4 # 0

---------------------------------------------------------------------------
(* The plane between floor f and the floor above it *)
BoundaryY(p, f) == (f + 1) * p.itemHeight

(* C24: every floor plate of the returned list stands above a cell (x, y)  *)
(* of a floor f that is not connected to the cell above it, at that cell's *)
(* centre in X and Z and with its Y on the plane between the two floors,   *)
(* (f + 1) * wallHeight.                                                   *)
C24_FloorPlatesOnBoundary ==
    (engine = "Maze3D" /\ MazeBuilt /\ Resolvable(params)) =>
        \A i \in 1..Len(allPoints) :
            allPoints[i].type = "floor" =>
                \E c \in DOMAIN grid :
                    /\ c[3] < params.floors - 1
                    /\ << c[1], c[2], c[3] + 1 >> \notin grid[c].connections
                    /\ allPoints[i].position =
                          << CentreX(params, c[1]), BoundaryY(params, c[3]), CentreZ(params, c[2]) >>

---------------------------------------------------------------------------
(* C25: after initializeGrid / initializeGrid3D the neighbours list of     *)
(* every cell holds exactly the cells of the grid that differ from it by 1 *)
(* in exactly one coordinate, each once; so the relation is symmetric and  *)
(* no neighbour is out of range.                                           *)
C25_NeighboursExact ==
    \A c \in DOMAIN grid :
        /\ SeqRange(grid[c].neighbours) = { d \in DOMAIN grid : Distance(c, d) = 1 }
        /\ Cardinality(SeqRange(grid[c].neighbours)) = Len(grid[c].neighbours)
        /\ \A d \in SeqRange(grid[c].neighbours) :
              /\ d[1] \in 0..(params.width - 1)
              /\ d[2] \in 0..(params.height - 1)
              /\ d[3] \in 0..(params.floors - 1)
              /\ c \in SeqRange(grid[d].neighbours)

(* A two-floor grid has been initialized, a cell of it with four           *)
(* neighbours, one of them on the other floor                              *)
C25_Witness ==
    /\ engine = "Maze3D" /\ pc = "walk" /\ params.floors = 2
    /\ \E c \in DOMAIN grid :
          /\ Len(grid[c].neighbours) = 4
          /\ \E d \in SeqRange(grid[c].neighbours) : d[3] # c[3]

---------------------------------------------------------------------------
(* The wall stands on an east or west side of a cell: on a cell edge in X, *)
(* at a cell centre in Z                                                   *)
FacesEastWest(p, el) ==
    /\ \E k \in 0..p.width : el.position[1] = EdgeX(p, k)
    /\ \E y \in 0..(p.height - 1) : el.position[3] = CentreZ(p, y)

(* The wall stands on a north or south side of a cell *)
FacesNorthSouth(p, el) ==
    /\ \E x \in 0..(p.width - 1) : el.position[1] = CentreX(p, x)
    /\ \E k \in 0..p.height : el.position[3] = EdgeZ(p, k)

(* C26: every wall of the returned list, inside the grid or on its         *)
(* outline, has rotationY = 0 when it stands on an east or west side of a  *)
(* cell and rotationY = pi/2 when it stands on a north or south side.      *)
C26_WallRotations ==
    MazeBuilt =>
        \A i \in 1..Len(allPoints) :
            allPoints[i].type = "wall" =>
                \/ FacesEastWest(params, allPoints[i]) /\ ~FacesNorthSouth(params, allPoints[i])
                                                       /\ allPoints[i].rotation = 0
                \/ FacesNorthSouth(params, allPoints[i]) /\ ~FacesEastWest(params, allPoints[i])
                                                         /\ allPoints[i].rotation = HALF_PI

(* A 2D maze with a turned and an unturned wall inside the grid *)
C26_Witness ==
    /\ engine = "Maze2D" /\ MazeBuilt
    /\ \E i, j \in 1..Len(allPoints) :
          /\ allPoints[i].rotation = 0 /\ allPoints[j].rotation = HALF_PI
          /\ allPoints[i].position[1] \in { EdgeX(params, k) : k \in 1..(params.width - 1) }
          /\ allPoints[j].position[3] \in { EdgeZ(params, k) : k \in 1..(params.height - 1) }

---------------------------------------------------------------------------
(* C27: at every iteration of the walk loop the visited cells and the      *)
(* connections form a tree that holds the start cell (one connection less  *)
(* than visited cells, every visited cell reachable from the start cell),  *)
(* no unvisited cell has a connection, and in Maze3D visitedCount is the   *)
(* number of visited cells.                                                *)
C27_VisitedCellsFormTree ==
    pc = "walk" =>
        /\ StartCell \in VisitedCells(grid)
        /\ Cardinality(Edges(grid)) = Cardinality(VisitedCells(grid)) - 1
        /\ ReachFrom(grid, { StartCell }) = VisitedCells(grid)
        /\ \A c \in DOMAIN grid \ VisitedCells(grid) : grid[c].connections = {}
        /\ engine = "Maze3D" => visitedCount = Cardinality(VisitedCells(grid))

(* A 3D walk under way after a backtrack: the tree branches and a cell is  *)
(* still unvisited                                                         *)
C27_Witness ==
    /\ engine = "Maze3D" /\ pc = "walk" /\ WalkLoopCondition
    /\ \E c \in DOMAIN grid : Cardinality(grid[c].connections) >= 3
    /\ VisitedCells(grid) # DOMAIN grid

---------------------------------------------------------------------------
(* C28: the walk loop terminates whatever the random choices are: every    *)
(* cell is pushed onto the stack at most once and popped from it at most   *)
(* once, the loop has run at most 2 * numCells iterations, and a running   *)
(* loop reaches a state where its condition fails: the stack is empty, or, *)
(* for Maze3D, the stack is empty or visitedCount = totalCells             *)
WalkLoopEnded ==
    /\ pc = "walk"
    /\ IF engine = "Maze2D"
       THEN stack = << >>
       ELSE stack = << >> \/ visitedCount = totalCells(params)

WalkLogWithinBounds ==
    /\ walkLog.iterations <= 2 * Cardinality(DOMAIN grid)
    /\ \A c \in DOMAIN grid : walkLog.pushes[c] <= 1 /\ walkLog.pops[c] <= 1

C28_WalkLoopTerminates ==
    /\ [](pc = "walk" => WalkLogWithinBounds)
    /\ (pc = "walk") ~> WalkLoopEnded

(* A loop that ended after backtracking out of every cell of a 3 x 2 grid: *)
(* five pushes in the loop, six pops                                       *)
C28_Witness ==
    /\ WalkLoopEnded
    /\ Cardinality(DOMAIN grid) = 6
    /\ walkLog.iterations = 11
    /\ \A c \in DOMAIN grid : walkLog.pushes[c] = 1 /\ walkLog.pops[c] = 1

---------------------------------------------------------------------------
(* C29: the deduplicateElements call that ends generate removes nothing:   *)
(* the returned list is the walls created followed by the floors created,  *)
(* in the order of their creation, so it holds getWalls().length walls and *)
(* getFloorCount() floors.  As stated, for every parameter generate takes; *)
(* as it holds, for lengths that rounding to PRECISION decimals keeps      *)
(* apart.                                                                  *)
FloorElements == { i \in 1..Len(allPoints) : allPoints[i].type = "floor" }

DedupRemovesNothing ==
    /\ allPoints = walls \o floors
    /\ Cardinality(WallElements) = Len(walls)
    /\ Cardinality(FloorElements) = Len(floors)

C29_AsStated == MazeBuilt => DedupRemovesNothing

C29_DedupRemovesNothing == (MazeBuilt /\ Resolvable(params)) => DedupRemovesNothing

(* A returned maze of two floors with plates, at resolvable lengths *)
C29_Witness ==
    /\ MazeBuilt
    /\ Resolvable(params)
    /\ params.floors = 2
    /\ Len(floors) >= 2
    /\ Len(walls) >= 18
    /\ Len(allPoints) = Len(walls) + Len(floors)

---------------------------------------------------------------------------
(* C30: on a Wheel generated with repetitions >= 1 and segments >= 0, for  *)
(* every valid index i, resetPointColor(i) after highlightPoint(i) gives   *)
(* the point at index i the colour it was created with: red (POINT) for a  *)
(* reference or edge point, green (CENTER) for the center, yellow          *)
(* (SEGMENT) for a segment point.                                          *)
ColourOfRole(sphere) ==
    CASE sphere.role \in { "reference", "edge" } -> POINT
      [] sphere.role = "center" -> CENTER
      [] sphere.role = "segment" -> SEGMENT

C30_ResetRestoresCreationColour ==
    \A index \in 0..(Len(wheel.allPoints) - 1) :
        LET sphere == wheel.allPoints[index + 1]
            after == wheelResetPointColor(wheelHighlightPoint(wheel, index), index)
        IN /\ sphere.createdWith = ColourOfRole(sphere)
           /\ after.color[index + 1] = sphere.createdWith

===========================================================================
